---- MODULE Spec2Model ----
(***************************************************************************)
(* Funding-event analytics: the fact tables (funding, minute_returns,      *)
(* open_interest, klines, symbols), the materialized views read by the     *)
(* fast endpoints of backend/main.py, and the SQL of the query endpoints   *)
(* of backend/app.py and backend/main.py, evaluated as the database        *)
(* evaluates it.                                                           *)
(*                                                                         *)
(* Timestamps are whole minutes since midnight of day 0.  Returns, rates,  *)
(* open interest and volumes are integers in a fixed unit (one unit of     *)
(* r1m is 0.001), so sums are exact; an average is kept as the pair        *)
(* (sum, count) it is computed from.                                       *)
(***************************************************************************)
EXTENDS Integers, Sequences, FiniteSets, TLC

VARIABLES
    symbols,          \* table symbols(symbol)
    funding,          \* table funding(symbol, ts, rate), key (symbol, ts)
    minute_returns,   \* table minute_returns(symbol, ts, r1m), key (symbol, ts)
    open_interest,    \* table open_interest(symbol, ts, oi), key (symbol, ts)
    klines,           \* table klines(symbol, open_time, volume), key (symbol, open_time)
    mv,               \* the materialized views, as last refreshed
    resp              \* the response of the last request served

vars == <<symbols, funding, minute_returns, open_interest, klines, mv, resp>>

facts == <<symbols, funding, minute_returns, open_interest, klines>>

(***************************************************************************)
(* Intervals of the SQL, in minutes.                                       *)
(***************************************************************************)
CarPreMinutes == 60
CarPostMinutes == 180
MarkoutMinutes == 60
LowVolMinutes == 30
HourMinutes == 60
DayMinutes == 1440
Tertiles == 3

(***************************************************************************)
(* Scalar functions and aggregates of the SQL.                             *)
(***************************************************************************)
Between(x, lo, hi) == lo <= x /\ x <= hi

DATE(ts) == ts \div DayMinutes

EXTRACT_HOUR(ts) == (ts % DayMinutes) \div HourMinutes

ABS(x) == IF x < 0 THEN -x ELSE x

MIN(S) == CHOOSE x \in S : \A y \in S : x <= y

MAX(S) == CHOOSE x \in S : \A y \in S : x >= y

\* SUM over the rows of one window: rows of one symbol, so at most one per
\* ts, all with lo <= ts <= hi.  tv holds a row as [ts, v], v the summed column.
RECURSIVE SumWindow(_, _, _)
SumWindow(tv, lo, hi) ==
    IF tv = {} THEN 0
    ELSE IF lo >= hi THEN (CHOOSE x \in tv : TRUE).v
    ELSE LET mid == (lo + hi) \div 2
         IN SumWindow({x \in tv : x.ts <= mid}, lo, mid)
            + SumWindow({x \in tv : x.ts > mid}, mid + 1, hi)

SUM_r1m(rows, lo, hi) == SumWindow({[ts |-> r.ts, v |-> r.r1m] : r \in rows}, lo, hi)

\* SUM(v) OVER (ORDER BY ts ROWS BETWEEN UNBOUNDED PRECEDING AND CURRENT ROW) on
\* the rows of one window: every row [ts, v] with the running sum up to and
\* including it, base being the sum of the rows before lo.
RECURSIVE RunningSum(_, _, _, _)
RunningSum(tv, lo, hi, base) ==
    IF tv = {} THEN {}
    ELSE IF lo >= hi THEN {[ts |-> x.ts, car |-> base + x.v] : x \in tv}
    ELSE LET mid == (lo + hi) \div 2
             left == {x \in tv : x.ts <= mid}
         IN RunningSum(left, lo, mid, base)
            \cup RunningSum(tv \ left, mid + 1, hi, base + SumWindow(left, lo, mid))

\* ORDER BY event_ts of rows whose event_ts are distinct.
RECURSIVE OrderByEventTs(_)
OrderByEventTs(rows) ==
    IF rows = {} THEN <<>>
    ELSE LET r == CHOOSE x \in rows : \A y \in rows : x.event_ts <= y.event_ts
         IN <<r>> \o OrderByEventTs(rows \ {r})

\* GROUP BY symbol, event_ts with MIN(car), MAX(car), ORDER BY event_ts.
MinMaxCarByEvent(series) ==
    OrderByEventTs(
        {[symbol |-> k[1], event_ts |-> k[2],
          min_car |-> MIN({r.car : r \in {x \in series : x.symbol = k[1] /\ x.event_ts = k[2]}}),
          max_car |-> MAX({r.car : r \in {x \in series : x.symbol = k[1] /\ x.event_ts = k[2]}})]
         : k \in {<<r.symbol, r.event_ts>> : r \in series}})

\* The symbols, in the order ORDER BY symbol gives them.
SymbolOrder == <<"A", "B">>

Symbols == {SymbolOrder[i] : i \in DOMAIN SymbolOrder}

SymbolIndex(sym) == CHOOSE i \in DOMAIN SymbolOrder : SymbolOrder[i] = sym

RECURSIVE GCD(_, _)
GCD(a, b) == IF b = 0 THEN a ELSE GCD(b, a % b)

\* The quotient num / den (den > 0) in lowest terms.
Ratio(num, den) ==
    LET g == GCD(ABS(num), den)
    IN [num |-> num \div g, den |-> den \div g]

\* A standard deviation that is 0, not NULL, on fewer than two rows.
STDDEV_zero(tv, lo, hi) ==
    LET n == Cardinality(tv)
        s1 == SumWindow(tv, lo, hi)
        s2 == SumWindow({[ts |-> x.ts, v |-> x.v * x.v] : x \in tv}, lo, hi)
    IN IF n < 2 THEN [null |-> FALSE, var |-> Ratio(0, 1)]
       ELSE [null |-> FALSE, var |-> Ratio(n * s2 - s1 * s1, n * (n - 1))]

\* STDDEV_SAMP(v) over the rows [ts, v] of one window: NULL on fewer than two
\* rows, else the square root of var = (n * sum(v^2) - sum(v)^2) / (n * (n - 1)).
\* The value is kept as var, the square of the result, in lowest terms.
STDDEV_SAMP(tv, lo, hi) ==
    LET n == Cardinality(tv)
        s1 == SumWindow(tv, lo, hi)
        s2 == SumWindow({[ts |-> x.ts, v |-> x.v * x.v] : x \in tv}, lo, hi)
    IN IF n < 2 THEN [null |-> TRUE, var |-> Ratio(0, 1)]
       ELSE [null |-> FALSE, var |-> Ratio(n * s2 - s1 * s1, n * (n - 1))]

\* a < b and a <= b on non-NULL standard deviations.
RvLess(a, b) == a.var.num * b.var.den < b.var.num * a.var.den

RvLeq(a, b) == a.var.num * b.var.den <= b.var.num * a.var.den

\* Mutant: NULL is put first.
RvOrdered_nulls_first(a, b) == a.null \/ (~b.null /\ RvLeq(a, b))

\* ORDER BY rv ascending puts NULL last; rows with equal rv may come in any order.
RvOrdered(a, b) == b.null \/ (~a.null /\ RvLeq(a, b))

\* Every arrangement of the rows of S in a sequence.
Perms(S) ==
    {s \in [1 .. Cardinality(S) -> S] : \A i, j \in DOMAIN s : i # j => s[i] # s[j]}

\* Mutant: buckets of the rounded-up size n / k are filled one after the other.
NTILE_ceil(i, n, k) == ((i - 1) \div ((n + k - 1) \div k)) + 1

\* NTILE(k) of the row at position i of n ordered rows: n div k rows per bucket,
\* the first n mod k buckets holding one more.
NTILE(i, n, k) ==
    LET q == n \div k
        r == n % k
    IN IF i <= r * (q + 1) THEN ((i - 1) \div (q + 1)) + 1
       ELSE r + ((i - r * (q + 1) - 1) \div q) + 1

\* PERCENTILE_CONT(0.5) of the sorted non-NULL standard deviations s[1..n], n >= 1,
\* as the pair of elements it interpolates halfway between (the same element
\* twice when the index 0.5 * (n - 1) is whole).
MedianPair(s) ==
    LET n == Len(s)
    IN [lo |-> s[((n - 1) \div 2) + 1], hi |-> s[(n \div 2) + 1]]

\* rv < (lo + hi) / 2 on square roots: 2 sqrt(x) < sqrt(a) + sqrt(b) iff
\* 4x - a - b < 2 sqrt(a b), with x, a, b brought to one denominator.
RvBelowMedian(rv, m) ==
    LET X == rv.var.num * m.lo.var.den * m.hi.var.den
        A == m.lo.var.num * rv.var.den * m.hi.var.den
        B == m.hi.var.num * rv.var.den * m.lo.var.den
        d == 4 * X - A - B
    IN d < 0 \/ d * d < 4 * A * B

\* SUM(markout_60m) over event rows (few, and distinct as records).
RECURSIVE SUM_markout_60m(_)
SUM_markout_60m(rows) ==
    IF rows = {} THEN 0
    ELSE LET r == CHOOSE x \in rows : TRUE
         IN r.markout_60m + SUM_markout_60m(rows \ {r})

\* AVG(markout_60m): the exact quotient num / den.
AVG_markout_60m(rows) == [num |-> SUM_markout_60m(rows), den |-> Cardinality(rows)]

\* ORDER BY k of rows given as [k, row] with distinct integer k.
RECURSIVE OrderAsc(_)
OrderAsc(keyed) ==
    IF keyed = {} THEN <<>>
    ELSE LET m == CHOOSE x \in keyed : \A y \in keyed : x.k <= y.k
         IN <<m.row>> \o OrderAsc(keyed \ {m})

\* GROUP BY funding_hour with AVG(markout_60m), COUNT(*), ORDER BY funding_hour,
\* of event rows [symbol, ts, markout_60m].
GroupByHour(events) ==
    OrderAsc({[k |-> h,
               row |-> [funding_hour |-> h,
                        avg_markout_60m |->
                            AVG_markout_60m({e \in events : EXTRACT_HOUR(e.ts) = h}),
                        n_events |-> Cardinality({e \in events : EXTRACT_HOUR(e.ts) = h})]]
              : h \in {EXTRACT_HOUR(e.ts) : e \in events}})

\* GROUP BY vol_regime with AVG(markout_60m), COUNT(*), ORDER BY vol_regime, of
\* event rows [symbol, ts, vol_regime, markout_60m].
GroupByRegime(events) ==
    OrderAsc({[k |-> g,
               row |-> [vol_regime |-> g,
                        avg_markout_60m |->
                            AVG_markout_60m({e \in events : e.vol_regime = g}),
                        n_events |-> Cardinality({e \in events : e.vol_regime = g})]]
              : g \in {e.vol_regime : e \in events}})

\* The orders ORDER BY rv may give the rows [rv |-> ..., row |-> ...].
RvOrders(keyed) ==
    {s \in Perms(keyed) :
        \A i \in DOMAIN s : i + 1 \in DOMAIN s => RvOrdered(s[i].rv, s[i + 1].rv)}

(***************************************************************************)
(* app.py QUERY_1: cumulative return around funding.                       *)
(***************************************************************************)
Q1_funding_events(symbol, start, end) ==
    {[symbol |-> f.symbol, event_ts |-> f.ts]
     : f \in {g \in funding : g.symbol = symbol /\ Between(g.ts, start, end)}}

\* Mutant: the window opens at the event instead of 60 minutes before it.
Q1_joined_from_event(f) ==
    {[ts |-> mr.ts, v |-> mr.r1m]
     : mr \in {x \in minute_returns :
                  /\ x.symbol = f.symbol
                  /\ Between(x.ts, f.event_ts, f.event_ts + CarPostMinutes)}}

\* The minute returns joined to event f, as [ts, v] rows.
Q1_joined(f) ==
    {[ts |-> mr.ts, v |-> mr.r1m]
     : mr \in {x \in minute_returns :
                  /\ x.symbol = f.symbol
                  /\ Between(x.ts, f.event_ts - CarPreMinutes, f.event_ts + CarPostMinutes)}}

Q1_window_returns(symbol, start, end) ==
    UNION {{[symbol |-> f.symbol, event_ts |-> f.event_ts, ts |-> r.ts, car |-> r.car]
            : r \in RunningSum(Q1_joined(f), f.event_ts - CarPreMinutes,
                               f.event_ts + CarPostMinutes, 0)}
           : f \in Q1_funding_events(symbol, start, end)}

QUERY_1(symbol, start, end) == MinMaxCarByEvent(Q1_window_returns(symbol, start, end))

(***************************************************************************)
(* main.py /api/slow/event_car.                                            *)
(***************************************************************************)
Slow1_all_funding == {[symbol |-> f.symbol, event_ts |-> f.ts] : f \in funding}

Slow1_post_ret(f, mr) == IF mr.ts >= f.event_ts THEN mr.r1m ELSE 0

\* The rows of all_returns_window of event f, as [ts, v] rows, v being post_ret.
Slow1_all_returns_window(f) ==
    {[ts |-> mr.ts, v |-> Slow1_post_ret(f, mr)]
     : mr \in {x \in minute_returns :
                  /\ x.symbol = f.symbol
                  /\ Between(x.ts, f.event_ts - CarPreMinutes, f.event_ts + CarPostMinutes)}}

Slow1_car_series ==
    UNION {{[symbol |-> f.symbol, event_ts |-> f.event_ts, ts |-> r.ts, car |-> r.car]
            : r \in RunningSum(Slow1_all_returns_window(f), f.event_ts - CarPreMinutes,
                               f.event_ts + CarPostMinutes, 0)}
           : f \in Slow1_all_funding}

SlowEventCar(symbol, start_ts, end_ts) ==
    MinMaxCarByEvent({r \in Slow1_car_series :
                         r.symbol = symbol /\ Between(r.event_ts, start_ts, end_ts)})

(***************************************************************************)
(* app.py QUERY_5: average 60-minute markout by hour of day.               *)
(***************************************************************************)
\* Mutant: the interval is closed at the event's own minute.
Q5_joined_closed(f) ==
    {mr \in minute_returns :
        mr.symbol = f.symbol /\ mr.ts >= f.ts /\ mr.ts <= f.ts + MarkoutMinutes}

\* The minute returns joined to funding row f.
Q5_joined(f) ==
    {mr \in minute_returns :
        mr.symbol = f.symbol /\ mr.ts > f.ts /\ mr.ts <= f.ts + MarkoutMinutes}

Q5_event_markouts(start, end) ==
    {[symbol |-> f.symbol, ts |-> f.ts,
      markout_60m |-> SUM_r1m(Q5_joined(f), f.ts + 1, f.ts + MarkoutMinutes)]
     : f \in {g \in funding : Between(g.ts, start, end) /\ Q5_joined(g) # {}}}

QUERY_5(start, end) == GroupByHour(Q5_event_markouts(start, end))

(***************************************************************************)
(* main.py /api/slow/hourly_markouts.                                      *)
(***************************************************************************)
\* Mutant: the interval ends before the minute at ts + 60min.
Slow5_joined_open(f) ==
    {mr \in minute_returns :
        mr.symbol = f.symbol /\ mr.ts > f.ts /\ mr.ts < f.ts + MarkoutMinutes}

Slow5_joined(f) ==
    {mr \in minute_returns :
        mr.symbol = f.symbol /\ mr.ts > f.ts /\ mr.ts <= f.ts + MarkoutMinutes}

Slow5_all_event_markouts ==
    {[symbol |-> f.symbol, ts |-> f.ts,
      markout_60m |-> SUM_r1m(Slow5_joined(f), f.ts + 1, f.ts + MarkoutMinutes)]
     : f \in {g \in funding : Slow5_joined(g) # {}}}

SlowHourlyMarkouts(start_ts, end_ts) ==
    GroupByHour({e \in Slow5_all_event_markouts : Between(e.ts, start_ts, end_ts)})

(***************************************************************************)
(* main.py /api/slow/vol_regime_markouts.                                  *)
(***************************************************************************)
\* The minute returns of the hour up to funding row f, as [ts, v] rows.
Slow6_window(f) ==
    {[ts |-> mr.ts, v |-> mr.r1m]
     : mr \in {x \in minute_returns :
                  x.symbol = f.symbol /\ Between(x.ts, f.ts - HourMinutes, f.ts)}}

Slow6_all_event_vol(start_ts, end_ts) ==
    {[symbol |-> f.symbol, ts |-> f.ts,
      rv_1h |-> STDDEV_SAMP(Slow6_window(f), f.ts - HourMinutes, f.ts)]
     : f \in {g \in funding : Between(g.ts, start_ts, end_ts) /\ Slow6_window(g) # {}}}

\* event_vol_regimes under the order s of the rows of all_event_vol.
Slow6_event_vol_regimes(s) ==
    {[symbol |-> s[i].row.symbol, ts |-> s[i].row.ts, rv_1h |-> s[i].row.rv_1h,
      vol_regime |-> NTILE(i, Cardinality(DOMAIN s), Tertiles)]
     : i \in DOMAIN s}

Slow6_joined(f) ==
    {mr \in minute_returns :
        mr.symbol = f.symbol /\ mr.ts > f.ts /\ mr.ts <= f.ts + MarkoutMinutes}

Slow6_event_markouts(s, start_ts, end_ts) ==
    {[symbol |-> p[1].symbol, ts |-> p[1].ts, vol_regime |-> p[2].vol_regime,
      markout_60m |-> SUM_r1m(Slow6_joined(p[1]), p[1].ts + 1, p[1].ts + MarkoutMinutes)]
     : p \in {x \in funding \X Slow6_event_vol_regimes(s) :
                 /\ x[2].symbol = x[1].symbol
                 /\ x[2].ts = x[1].ts
                 /\ Between(x[1].ts, start_ts, end_ts)
                 /\ Slow6_joined(x[1]) # {}}}

\* The results the query may give: one per order NTILE(3) OVER (ORDER BY rv_1h)
\* may rank the events in.
SlowVolRegimeMarkouts(start_ts, end_ts) ==
    {GroupByRegime(Slow6_event_markouts(s, start_ts, end_ts))
     : s \in RvOrders({[rv |-> r.rv_1h, row |-> r]
                        : r \in Slow6_all_event_vol(start_ts, end_ts)})}

(***************************************************************************)
(* app.py QUERY_4: symbols never negative in low-volatility regimes.       *)
(***************************************************************************)
\* The minute returns of the day up to funding row f, as [ts, v] rows.
Q4_window(f) ==
    {[ts |-> mr.ts, v |-> mr.r1m]
     : mr \in {x \in minute_returns :
                  x.symbol = f.symbol /\ Between(x.ts, f.ts - DayMinutes, f.ts)}}

Q4_funding_rv(start, end) ==
    {[symbol |-> f.symbol, ts |-> f.ts,
      rv_1d |-> STDDEV_SAMP(Q4_window(f), f.ts - DayMinutes, f.ts)]
     : f \in {g \in funding : Between(g.ts, start, end) /\ Q4_window(g) # {}}}

\* rv_1d < med_rv, med_rv being PERCENTILE_CONT(0.5) of the non-NULL rv_1d of
\* rows; it is NULL, and the comparison not true, when every rv_1d is NULL.
BelowMedianRv(fr, rows) ==
    LET known == {[rv |-> r.rv_1d, row |-> r] : r \in {x \in rows : ~x.rv_1d.null}}
        s == CHOOSE o \in RvOrders(known) : TRUE
    IN /\ ~fr.rv_1d.null
       /\ known # {}
       /\ RvBelowMedian(fr.rv_1d, MedianPair([i \in 1 .. Cardinality(known) |-> s[i].rv]))

\* The subquery under NOT EXISTS of the row fr.
Q4_exists_negative(fr, rows) ==
    \E mr \in minute_returns :
        /\ mr.symbol = fr.symbol
        /\ mr.ts > fr.ts
        /\ mr.ts <= fr.ts + LowVolMinutes
        /\ mr.r1m < 0
        /\ BelowMedianRv(fr, rows)

\* SELECT DISTINCT symbol ... ORDER BY symbol.
DistinctSymbols(rows) ==
    OrderAsc({[k |-> SymbolIndex(sym), row |-> [symbol |-> sym]]
              : sym \in {r.symbol : r \in rows}})

QUERY_4(start, end) ==
    LET rows == Q4_funding_rv(start, end)
    IN DistinctSymbols({fr \in rows : ~Q4_exists_negative(fr, rows)})

(***************************************************************************)
(* The materialized views.  Their definitions are not among the source     *)
(* files; they follow the specification's data model.                      *)
(***************************************************************************)
\* EventCar(symbol, event_ts, offset_ts, car): one row per minute return in
\* [event_ts - 60min, event_ts + 180min], car the running sum of r1m from the
\* window start.
mv_event_car_def ==
    UNION {{[symbol |-> f.symbol, event_ts |-> f.ts, offset_ts |-> r.ts, car |-> r.car]
            : r \in RunningSum({[ts |-> mr.ts, v |-> mr.r1m]
                                : mr \in {x \in minute_returns :
                                             /\ x.symbol = f.symbol
                                             /\ Between(x.ts, f.ts - CarPreMinutes,
                                                               f.ts + CarPostMinutes)}},
                               f.ts - CarPreMinutes, f.ts + CarPostMinutes, 0)}
           : f \in funding}

\* EventMarkout(symbol, event_ts, markout_60m): the sum of r1m strictly after the
\* event up to +60 minutes, one row per event with a return there.
mv_event_markouts_def ==
    {[symbol |-> f.symbol, event_ts |-> f.ts,
      markout_60m |->
          SUM_r1m({mr \in minute_returns :
                      mr.symbol = f.symbol /\ mr.ts > f.ts /\ mr.ts <= f.ts + MarkoutMinutes},
                  f.ts + 1, f.ts + MarkoutMinutes)]
     : f \in {g \in funding :
                 \E mr \in minute_returns :
                     mr.symbol = g.symbol /\ mr.ts > g.ts /\ mr.ts <= g.ts + MarkoutMinutes}}

\* EventVolatility(symbol, ts, rv_1h, rv_1d, vol_regime): the sample standard
\* deviation of r1m over the hour and over the day up to the event, one row per
\* event with a return in that day; vol_regime the tertile of rv_1h across all
\* events of the pass.
mv_event_vol_rows ==
    {[symbol |-> f.symbol, ts |-> f.ts,
      rv_1h |-> STDDEV_SAMP({[ts |-> mr.ts, v |-> mr.r1m]
                             : mr \in {x \in minute_returns :
                                          /\ x.symbol = f.symbol
                                          /\ Between(x.ts, f.ts - HourMinutes, f.ts)}},
                            f.ts - HourMinutes, f.ts),
      rv_1d |-> STDDEV_SAMP({[ts |-> mr.ts, v |-> mr.r1m]
                             : mr \in {x \in minute_returns :
                                          /\ x.symbol = f.symbol
                                          /\ Between(x.ts, f.ts - DayMinutes, f.ts)}},
                            f.ts - DayMinutes, f.ts)]
     : f \in {g \in funding :
                 \E mr \in minute_returns :
                     mr.symbol = g.symbol /\ Between(mr.ts, g.ts - DayMinutes, g.ts)}}

\* The contents a refresh may give mv_event_volatility: one per order the
\* tertile split may rank the events in.
mv_event_volatility_defs ==
    {{[symbol |-> s[i].row.symbol, ts |-> s[i].row.ts, rv_1h |-> s[i].row.rv_1h,
       rv_1d |-> s[i].row.rv_1d,
       vol_regime |-> NTILE(i, Cardinality(DOMAIN s), Tertiles)]
      : i \in DOMAIN s}
     : s \in RvOrders({[rv |-> r.rv_1h, row |-> r] : r \in mv_event_vol_rows})}

(***************************************************************************)
(* Percentile thresholds of the extreme-regime detection.                  *)
(***************************************************************************)
OiWindowDays == 14

\* PERCENTILE_CONT(0.9) WITHIN GROUP (ORDER BY v) of the rows keyed [k, row] with
\* k = row.v: the value at position 0.9 * (n - 1) of the n ordered values,
\* counted from 0 and interpolated linearly between neighbours.  The result is
\* kept tenfold, which is an integer.
PERCENTILE_CONT_90(keyed) ==
    LET s == OrderAsc(keyed)
        pos == 9 * (Len(s) - 1)
        lo == pos \div 10 + 1
        fr == pos % 10
    IN IF fr = 0 THEN 10 * s[lo].v
       ELSE 10 * s[lo].v + fr * (s[lo + 1].v - s[lo].v)

\* Mutant: a value equal to the percentile qualifies too.
ExceedsP90_or_equal(x, p) == 10 * x >= p

\* x > p, for p a percentile kept tenfold.
ExceedsP90(x, p) == 10 * x > p

\* GROUP BY symbol, DATE(ts) of funding rows fs with the 90th percentile of
\* ABS(rate).
DailyRateStats(fs) ==
    {[symbol |-> sd[1], d |-> sd[2],
      p90_abs_rate |->
          PERCENTILE_CONT_90({[k |-> ABS(f.rate), row |-> [ts |-> f.ts, v |-> ABS(f.rate)]]
                              : f \in {g \in fs : g.symbol = sd[1] /\ DATE(g.ts) = sd[2]}})]
     : sd \in {<<f.symbol, DATE(f.ts)>> : f \in fs}}

\* The 90th percentile of oi OVER (PARTITION BY symbol ORDER BY ts RANGE BETWEEN
\* INTERVAL '14 days' PRECEDING AND CURRENT ROW), for every row of rows.
RollingOiStats(rows) ==
    {[symbol |-> o.symbol, ts |-> o.ts, oi |-> o.oi,
      p90_oi_14d |->
          PERCENTILE_CONT_90({[k |-> p.oi, row |-> [ts |-> p.ts, v |-> p.oi]]
                              : p \in {q \in rows :
                                          /\ q.symbol = o.symbol
                                          /\ Between(q.ts, o.ts - OiWindowDays * DayMinutes,
                                                     o.ts)}})]
     : o \in rows}

\* DailyRateStat(symbol, day, p90_abs_rate) over all funding events.
mv_daily_rate_stats_def == DailyRateStats(funding)

\* RollingOiStat(symbol, ts, oi, p90_oi_14d): one row per open-interest snapshot,
\* which the fast path joins to the funding event of the same timestamp.
mv_rolling_oi_stats_def == RollingOiStats(open_interest)

\* mv_symbol_daily_stats: one row per symbol and calendar day on which the symbol
\* has klines, with the day's kline count, funding-event count and AVG(volume).
RECURSIVE SUM_volume(_)
SUM_volume(rows) ==
    IF rows = {} THEN 0
    ELSE LET r == CHOOSE x \in rows : TRUE
         IN r.volume + SUM_volume(rows \ {r})

mv_symbol_daily_stats_def ==
    {[symbol |-> sd[1], d |-> sd[2],
      n_klines |-> Cardinality({k \in klines : k.symbol = sd[1] /\ DATE(k.open_time) = sd[2]}),
      n_funding_events |->
          Cardinality({f \in funding : f.symbol = sd[1] /\ DATE(f.ts) = sd[2]}),
      avg_volume |->
          Ratio(SUM_volume({k \in klines : k.symbol = sd[1] /\ DATE(k.open_time) = sd[2]}),
                Cardinality({k \in klines : k.symbol = sd[1] /\ DATE(k.open_time) = sd[2]}))]
     : sd \in {<<k.symbol, DATE(k.open_time)>> : k \in klines}}

\* The view sets a refresh may publish.
MaterializeAll ==
    {[event_car |-> mv_event_car_def,
      event_markouts |-> mv_event_markouts_def,
      event_volatility |-> ev,
      symbol_daily_stats |-> mv_symbol_daily_stats_def,
      daily_rate_stats |-> mv_daily_rate_stats_def,
      rolling_oi_stats |-> mv_rolling_oi_stats_def]
     : ev \in mv_event_volatility_defs}

(***************************************************************************)
(* main.py /api/event_car (fast path).                                     *)
(***************************************************************************)
FastEventCar(symbol, start_ts, end_ts) ==
    MinMaxCarByEvent({r \in mv.event_car :
                         r.symbol = symbol /\ Between(r.event_ts, start_ts, end_ts)})

(***************************************************************************)
(* main.py /api/hourly_markouts (fast path).                               *)
(***************************************************************************)
FastHourlyMarkouts(start_ts, end_ts) ==
    GroupByHour({[symbol |-> r.symbol, ts |-> r.event_ts, markout_60m |-> r.markout_60m]
                 : r \in {x \in mv.event_markouts : Between(x.event_ts, start_ts, end_ts)}})

(***************************************************************************)
(* main.py /api/vol_regime_markouts (fast path).                           *)
(***************************************************************************)
FastVolRegimeMarkouts(start_ts, end_ts) ==
    GroupByRegime(
        {[symbol |-> p[1].symbol, ts |-> p[1].ts, vol_regime |-> p[1].vol_regime,
          markout_60m |-> p[2].markout_60m]
         : p \in {x \in mv.event_volatility \X mv.event_markouts :
                     /\ x[2].symbol = x[1].symbol
                     /\ x[2].event_ts = x[1].ts
                     /\ Between(x[1].ts, start_ts, end_ts)}})

(***************************************************************************)
(* main.py /api/low_vol_safe_symbols (fast path).                          *)
(***************************************************************************)
Fast4_exists_negative(ev, rows) ==
    \E mr \in minute_returns :
        /\ mr.symbol = ev.symbol
        /\ mr.ts > ev.ts
        /\ mr.ts <= ev.ts + LowVolMinutes
        /\ mr.r1m < 0
        /\ BelowMedianRv(ev, rows)

FastLowVolSafeSymbols(start_ts, end_ts) ==
    LET rows == {ev \in mv.event_volatility : Between(ev.ts, start_ts, end_ts)}
    IN DistinctSymbols({ev \in rows : ~Fast4_exists_negative(ev, rows)})

(***************************************************************************)
(* main.py /api/slow/symbol_overview and /api/symbol_overview.             *)
(***************************************************************************)
\* The f side of a LEFT JOIN row of a symbol without funding events.
NullFunding == [null |-> TRUE, ts |-> 0]

\* symbols s LEFT JOIN klines k LEFT JOIN funding f, both ON the symbol alone,
\* WHERE k.open_time BETWEEN start_ts AND end_ts: the rows of one symbol.  The
\* WHERE drops the row of a symbol without klines, whose k side is NULL.
Slow7_joined(symbol, start_ts, end_ts) ==
    LET fs == {f \in funding : f.symbol = symbol}
        fside == IF fs = {} THEN {NullFunding}
                 ELSE {[null |-> FALSE, ts |-> f.ts] : f \in fs}
    IN {[open_time |-> k.open_time, volume |-> k.volume, f |-> f]
        : k \in {x \in klines : x.symbol = symbol /\ Between(x.open_time, start_ts, end_ts)},
          f \in fside}

SlowSymbolOverview(start_ts, end_ts) ==
    OrderAsc({[k |-> SymbolIndex(sym),
               row |-> LET j == Slow7_joined(sym, start_ts, end_ts)
                       IN [symbol |-> sym,
                           n_klines |-> Cardinality({x.open_time : x \in j}),
                           n_funding_events |->
                               Cardinality({x.f.ts : x \in {y \in j : ~y.f.null}}),
                           avg_kline_volume |-> Ratio(SUM_volume(j), Cardinality(j))]]
              : sym \in {x \in symbols : Slow7_joined(x, start_ts, end_ts) # {}}})

\* SUM(n_klines), SUM(n_funding_events) and the exact sum of avg_volume over
\* rollup rows.
RECURSIVE SUM_daily(_)
SUM_daily(rows) ==
    IF rows = {} THEN [n_klines |-> 0, n_funding_events |-> 0, avg |-> [num |-> 0, den |-> 1]]
    ELSE LET r == CHOOSE x \in rows : TRUE
             rest == SUM_daily(rows \ {r})
         IN [n_klines |-> r.n_klines + rest.n_klines,
             n_funding_events |-> r.n_funding_events + rest.n_funding_events,
             avg |-> Ratio(r.avg_volume.num * rest.avg.den + rest.avg.num * r.avg_volume.den,
                           r.avg_volume.den * rest.avg.den)]

\* WHERE d BETWEEN start_ts AND end_ts compares the date d, as the timestamp of
\* its midnight, with the bounds.
FastSymbolOverview(start_ts, end_ts) ==
    LET inRange == {r \in mv.symbol_daily_stats : Between(r.d * DayMinutes, start_ts, end_ts)}
    IN OrderAsc({[k |-> SymbolIndex(sym),
                  row |-> LET rows == {r \in inRange : r.symbol = sym}
                              t == SUM_daily(rows)
                          IN [symbol |-> sym,
                              n_klines |-> t.n_klines,
                              n_funding_events |-> t.n_funding_events,
                              avg_kline_volume |->
                                  Ratio(t.avg.num, t.avg.den * Cardinality(rows))]]
                 : sym \in {r.symbol : r \in inRange}})

(***************************************************************************)
(* app.py QUERY_3 and main.py /api/extreme_regimes.                        *)
(***************************************************************************)
\* GROUP BY symbol with AVG(markout_60m) and COUNT(*), of event rows
\* [symbol, ts, markout_60m].
GroupBySymbol(events) ==
    {[symbol |-> sym,
      avg_markout_60m |-> AVG_markout_60m({e \in events : e.symbol = sym}),
      n_events |-> Cardinality({e \in events : e.symbol = sym})]
     : sym \in {e.symbol : e \in events}}

\* HAVING COUNT(*) >= min_events.
HAVING(groups, min_events) == {g \in groups : g.n_events >= min_events}

AvgGeq(a, b) == a.num * b.den >= b.num * a.den

OrderByAvgAsc(groups) ==
    {s \in Perms(groups) :
        \A i, j \in DOMAIN s : i < j => AvgGeq(s[j].avg_markout_60m, s[i].avg_markout_60m)}

\* ORDER BY avg_markout_60m DESC: every order of the rows the database may
\* return, rows of equal average in either order.
OrderByAvgDesc(groups) ==
    {s \in Perms(groups) :
        \A i, j \in DOMAIN s : i < j => AvgGeq(s[i].avg_markout_60m, s[j].avg_markout_60m)}

LIMIT(s, top_k) == SubSeq(s, 1, MIN({top_k, Len(s)}))

Q3_daily_rate_stats(start, end) ==
    DailyRateStats({f \in funding : Between(f.ts, start, end)})

\* Mutant: the open-interest rows are restricted to the requested range itself.
Q3_rolling_oi_stats_in_range(start, end) ==
    RollingOiStats({o \in open_interest : Between(o.ts, start, end)})

\* rolling_oi_stats is read as what its clauses spell: the percentile over the
\* 14-day frame of each row, with the row's oi carried along for the comparison
\* oi.oi > oi.p90_oi_14d of regime_events.  (PostgreSQL accepts neither OVER on
\* PERCENTILE_CONT nor the reference to oi.oi, which the CTE does not select.)
Q3_rolling_oi_stats(start, end) ==
    RollingOiStats({o \in open_interest :
                       Between(o.ts, start - OiWindowDays * DayMinutes, end)})

\* The latest snapshot of the symbol at or before the event.
Q3_oi_join_nearest(f, ois) ==
    {o \in ois : /\ o.symbol = f.symbol
                 /\ o.ts <= f.ts
                 /\ \A p \in ois : (p.symbol = f.symbol /\ p.ts <= f.ts) => p.ts <= o.ts}

\* JOIN rolling_oi_stats oi ON oi.symbol = f.symbol AND oi.ts = f.ts.
Q3_oi_join(f, ois) == {o \in ois : o.symbol = f.symbol /\ o.ts = f.ts}

\* regime_events reads funding without a range of its own: the range reaches it
\* through the rows of daily_rate_stats and rolling_oi_stats.
Q3_regime_events(start, end) ==
    LET drs == Q3_daily_rate_stats(start, end)
        ois == Q3_rolling_oi_stats(start, end)
    IN {f \in funding :
           \E dr \in drs, oi \in Q3_oi_join(f, ois) :
               /\ dr.symbol = f.symbol
               /\ dr.d = DATE(f.ts)
               /\ ExceedsP90(ABS(f.rate), dr.p90_abs_rate)
               /\ ExceedsP90(oi.oi, oi.p90_oi_14d)}

Q3_joined(r) ==
    {mr \in minute_returns :
        mr.symbol = r.symbol /\ mr.ts > r.ts /\ mr.ts <= r.ts + MarkoutMinutes}

Q3_event_markouts(start, end) ==
    {[symbol |-> r.symbol, ts |-> r.ts,
      markout_60m |-> SUM_r1m(Q3_joined(r), r.ts + 1, r.ts + MarkoutMinutes)]
     : r \in {g \in Q3_regime_events(start, end) : Q3_joined(g) # {}}}

\* The results QUERY_3 may return: one per order of the rows that tie.
QUERY_3(start, end, min_regime_events, top_k) ==
    {LIMIT(s, top_k)
     : s \in OrderByAvgDesc(HAVING(GroupBySymbol(Q3_event_markouts(start, end)),
                                   min_regime_events))}

\* JOIN mv_rolling_oi_stats oi ON oi.symbol = f.symbol AND oi.ts = f.ts.
Fast3_oi_join(f) == {o \in mv.rolling_oi_stats : o.symbol = f.symbol /\ o.ts = f.ts}

Fast3_regime_events(start_ts, end_ts) ==
    {f \in funding :
        /\ Between(f.ts, start_ts, end_ts)
        /\ \E dr \in mv.daily_rate_stats, oi \in Fast3_oi_join(f) :
               /\ dr.symbol = f.symbol
               /\ dr.d = DATE(f.ts)
               /\ ExceedsP90(ABS(f.rate), dr.p90_abs_rate)
               /\ ExceedsP90(oi.oi, oi.p90_oi_14d)}

\* regime_events r JOIN mv_event_markouts em ON the symbol and the timestamp.
Fast3_joined(start_ts, end_ts) ==
    {[symbol |-> p[1].symbol, ts |-> p[1].ts, markout_60m |-> p[2].markout_60m]
     : p \in {q \in Fast3_regime_events(start_ts, end_ts) \X mv.event_markouts :
                 q[2].symbol = q[1].symbol /\ q[2].event_ts = q[1].ts}}

FastExtremeRegimes(start_ts, end_ts, min_events, top_k) ==
    {LIMIT(s, top_k)
     : s \in OrderByAvgDesc(HAVING(GroupBySymbol(Fast3_joined(start_ts, end_ts)),
                                   min_events))}

(***************************************************************************)
(* app.py QUERY_2 and main.py /api/slow/funding_deciles.                   *)
(***************************************************************************)
Deciles == 10

\* ORDER BY rate of funding rows: every order the database may rank them in,
\* rows of equal rate in either order.
RECURSIVE OrderByRate(_)
OrderByRate(rows) ==
    IF rows = {} THEN {<<>>}
    ELSE UNION {{<<m>> \o s : s \in OrderByRate(rows \ {m})}
                : m \in {x \in rows : \A y \in rows : x.rate <= y.rate}}

\* NTILE(10) OVER (ORDER BY rate) on the rows of one partition: the decile
\* assignments the database may produce.
DecilesOfPartition(rows) ==
    {{[symbol |-> s[i].symbol, ts |-> s[i].ts, rate |-> s[i].rate,
       rate_decile |-> NTILE(i, Len(s), Deciles)] : i \in DOMAIN s}
     : s \in OrderByRate(rows)}

\* The window over all the rows as one partition.
FundingWithDecile_unpartitioned(fs) == DecilesOfPartition(fs)

\* NTILE(10) OVER (PARTITION BY DATE(ts) ORDER BY rate) on funding rows fs: the
\* assignments of the partitions, combined.
RECURSIVE FundingWithDecile(_)
FundingWithDecile(fs) ==
    IF fs = {} THEN {{}}
    ELSE LET d == MIN({DATE(f.ts) : f \in fs})
             part == {f \in fs : DATE(f.ts) = d}
         IN {a \cup rest : a \in DecilesOfPartition(part),
                           rest \in FundingWithDecile(fs \ part)}

Q2_funding_with_decile(start, end) ==
    FundingWithDecile({f \in funding : Between(f.ts, start, end)})

Q2_joined(f) ==
    {mr \in minute_returns :
        mr.symbol = f.symbol /\ mr.ts > f.ts /\ mr.ts <= f.ts + MarkoutMinutes}

\* event_markouts over the decile assignment a.
Q2_event_markouts(a) ==
    {[symbol |-> f.symbol, ts |-> f.ts, rate_decile |-> f.rate_decile,
      markout_60m |-> SUM_r1m(Q2_joined(f), f.ts + 1, f.ts + MarkoutMinutes)]
     : f \in {g \in a : Q2_joined(g) # {}}}

\* GROUP BY rate_decile with AVG(markout_60m), COUNT(*), ORDER BY rate_decile.
GroupByDecile(events) ==
    OrderAsc({[k |-> dec,
               row |-> [rate_decile |-> dec,
                        avg_markout_60m |->
                            AVG_markout_60m({e \in events : e.rate_decile = dec}),
                        n_events |-> Cardinality({e \in events : e.rate_decile = dec})]]
              : dec \in {e.rate_decile : e \in events}})

\* The results QUERY_2 may return: one per decile assignment.
QUERY_2(start, end) ==
    {GroupByDecile(Q2_event_markouts(a)) : a \in Q2_funding_with_decile(start, end)}

Slow2_all_funding_with_decile == FundingWithDecile(funding)

Slow2_joined(f) ==
    {mr \in minute_returns :
        mr.symbol = f.symbol /\ mr.ts > f.ts /\ mr.ts <= f.ts + MarkoutMinutes}

Slow2_all_event_markouts(a) ==
    {[symbol |-> f.symbol, ts |-> f.ts, rate_decile |-> f.rate_decile,
      markout_60m |-> SUM_r1m(Slow2_joined(f), f.ts + 1, f.ts + MarkoutMinutes)]
     : f \in {g \in a : Slow2_joined(g) # {}}}

SlowFundingDeciles(start_ts, end_ts) ==
    {GroupByDecile({e \in Slow2_all_event_markouts(a) : Between(e.ts, start_ts, end_ts)})
     : a \in Slow2_all_funding_with_decile}

(***************************************************************************)
(* app.py QUERY_6: markouts by short-term volatility regime.               *)
(***************************************************************************)
\* The minute returns of the hour up to funding row f, as [ts, v] rows.
Q6_window(f) ==
    {[ts |-> mr.ts, v |-> mr.r1m]
     : mr \in {x \in minute_returns :
                  x.symbol = f.symbol /\ Between(x.ts, f.ts - HourMinutes, f.ts)}}

Q6_event_vol(start, end) ==
    {[symbol |-> f.symbol, ts |-> f.ts,
      rv_1h |-> STDDEV_SAMP(Q6_window(f), f.ts - HourMinutes, f.ts)]
     : f \in {g \in funding : Between(g.ts, start, end) /\ Q6_window(g) # {}}}

\* event_vol_regimes under the order s of the rows of event_vol.
Q6_event_vol_regimes(s) ==
    {[symbol |-> s[i].row.symbol, ts |-> s[i].row.ts, rv_1h |-> s[i].row.rv_1h,
      vol_regime |-> NTILE(i, Cardinality(DOMAIN s), Tertiles)]
     : i \in DOMAIN s}

Q6_joined(f) ==
    {mr \in minute_returns :
        mr.symbol = f.symbol /\ mr.ts > f.ts /\ mr.ts <= f.ts + MarkoutMinutes}

Q6_event_markouts(s, start, end) ==
    {[symbol |-> p[1].symbol, ts |-> p[1].ts, vol_regime |-> p[2].vol_regime,
      markout_60m |-> SUM_r1m(Q6_joined(p[1]), p[1].ts + 1, p[1].ts + MarkoutMinutes)]
     : p \in {x \in funding \X Q6_event_vol_regimes(s) :
                 /\ x[2].symbol = x[1].symbol
                 /\ x[2].ts = x[1].ts
                 /\ Between(x[1].ts, start, end)
                 /\ Q6_joined(x[1]) # {}}}

\* The results QUERY_6 may return: one per order NTILE(3) OVER (ORDER BY rv_1h)
\* may rank the events in.
QUERY_6(start, end) ==
    {GroupByRegime(Q6_event_markouts(s, start, end))
     : s \in RvOrders({[rv |-> r.rv_1h, row |-> r] : r \in Q6_event_vol(start, end)})}

(***************************************************************************)
(* app.py QUERY_9: average 30-minute realized volatility after funding.    *)
(***************************************************************************)
RvPostMinutes == 30

\* The minute returns of the 30 minutes from funding row f on, as [ts, v] rows.
Q9_window(f) ==
    {[ts |-> mr.ts, v |-> mr.r1m]
     : mr \in {x \in minute_returns :
                  x.symbol = f.symbol /\ Between(x.ts, f.ts, f.ts + RvPostMinutes)}}

Q9_event_rv(start, end) ==
    {[symbol |-> f.symbol, ts |-> f.ts,
      rv_30m |-> STDDEV_SAMP(Q9_window(f), f.ts, f.ts + RvPostMinutes)]
     : f \in {g \in funding : Between(g.ts, start, end) /\ Q9_window(g) # {}}}

\* AVG(rv_30m) over event rows: NULL when no row has a standard deviation, else
\* the mean of the standard deviations that are not NULL, kept as the variances
\* (by event timestamp) whose square roots it averages.
AVG_rv_30m(events) ==
    LET defined == {e \in events : ~e.rv_30m.null}
    IN [null |-> defined = {},
        terms |-> {[ts |-> e.ts, var |-> e.rv_30m.var] : e \in defined}]

\* The largest r in lo .. hi with r * r <= n.
RECURSIVE ISqrtIn(_, _, _)
ISqrtIn(n, lo, hi) ==
    IF lo >= hi THEN lo
    ELSE LET mid == (lo + hi + 1) \div 2
         IN IF mid * mid <= n THEN ISqrtIn(n, mid, hi) ELSE ISqrtIn(n, lo, mid - 1)

\* The sum of the square roots of the variances of terms, in thousandths, each
\* rounded down; the root of a 32-bit number is at most 46340.
RECURSIVE SqrtSumFloor(_)
SqrtSumFloor(terms) ==
    IF terms = {} THEN 0
    ELSE LET t == CHOOSE x \in terms : TRUE
             n == (1000000 * t.var.num) \div t.var.den
         IN ISqrtIn(n, 0, MIN({n, 46340})) + SqrtSumFloor(terms \ {t})

\* a < b for two averages that are not NULL, when the thousandths decide it.
AvgRvLess(a, b) ==
    (SqrtSumFloor(a.terms) + Cardinality(a.terms)) * Cardinality(b.terms)
        < SqrtSumFloor(b.terms) * Cardinality(a.terms)

\* ORDER BY avg_rv_30m DESC puts NULL first; averages the thousandths do not
\* tell apart may come in either order.
AvgRvOrdered(a, b) == a.null \/ (~b.null /\ ~AvgRvLess(a, b))

Q9_groups(start, end) ==
    LET events == Q9_event_rv(start, end)
    IN {[symbol |-> sym,
         avg_rv_30m |-> AVG_rv_30m({e \in events : e.symbol = sym}),
         n_events |-> Cardinality({e \in events : e.symbol = sym})]
        : sym \in {e.symbol : e \in events}}

\* The results QUERY_9 may return: one per order of the rows that tie.
QUERY_9(start, end) ==
    {s \in Perms(Q9_groups(start, end)) :
        \A i, j \in DOMAIN s : i < j => AvgRvOrdered(s[i].avg_rv_30m, s[j].avg_rv_30m)}

(***************************************************************************)
(* Requests.                                                               *)
(***************************************************************************)
NoResponse == [op |-> "none"]

\* Timestamps the requests of the event studies carry as start_ts or end_ts.
ReqTimes == {61, 62}

app_get_event_car(symbol, start_ts, end_ts) ==
    /\ resp' = [op |-> "app_get_event_car", symbol |-> symbol, start_ts |-> start_ts,
                end_ts |-> end_ts, rows |-> QUERY_1(symbol, start_ts, end_ts)]
    /\ UNCHANGED <<facts, mv>>

get_event_car(symbol, start_ts, end_ts) ==
    /\ resp' = [op |-> "get_event_car", symbol |-> symbol, start_ts |-> start_ts,
                end_ts |-> end_ts, rows |-> FastEventCar(symbol, start_ts, end_ts)]
    /\ UNCHANGED <<facts, mv>>

get_event_car_slow(symbol, start_ts, end_ts) ==
    /\ resp' = [op |-> "get_event_car_slow", symbol |-> symbol, start_ts |-> start_ts,
                end_ts |-> end_ts, rows |-> SlowEventCar(symbol, start_ts, end_ts)]
    /\ UNCHANGED <<facts, mv>>

app_get_hourly_markouts(start_ts, end_ts) ==
    /\ resp' = [op |-> "app_get_hourly_markouts", start_ts |-> start_ts,
                end_ts |-> end_ts, rows |-> QUERY_5(start_ts, end_ts)]
    /\ UNCHANGED <<facts, mv>>

get_hourly_markouts(start_ts, end_ts) ==
    /\ resp' = [op |-> "get_hourly_markouts", start_ts |-> start_ts,
                end_ts |-> end_ts, rows |-> FastHourlyMarkouts(start_ts, end_ts)]
    /\ UNCHANGED <<facts, mv>>

get_hourly_markouts_slow(start_ts, end_ts) ==
    /\ resp' = [op |-> "get_hourly_markouts_slow", start_ts |-> start_ts,
                end_ts |-> end_ts, rows |-> SlowHourlyMarkouts(start_ts, end_ts)]
    /\ UNCHANGED <<facts, mv>>

get_vol_regime_markouts(start_ts, end_ts) ==
    /\ resp' = [op |-> "get_vol_regime_markouts", start_ts |-> start_ts,
                end_ts |-> end_ts, rows |-> FastVolRegimeMarkouts(start_ts, end_ts)]
    /\ UNCHANGED <<facts, mv>>

get_vol_regime_markouts_slow(start_ts, end_ts) ==
    /\ \E rows \in SlowVolRegimeMarkouts(start_ts, end_ts) :
          resp' = [op |-> "get_vol_regime_markouts_slow", start_ts |-> start_ts,
                   end_ts |-> end_ts, rows |-> rows]
    /\ UNCHANGED <<facts, mv>>

app_get_never_negative_lowvol(start_ts, end_ts) ==
    /\ resp' = [op |-> "app_get_never_negative_lowvol", start_ts |-> start_ts,
                end_ts |-> end_ts, rows |-> QUERY_4(start_ts, end_ts)]
    /\ UNCHANGED <<facts, mv>>

get_low_vol_safe_symbols(start_ts, end_ts) ==
    /\ resp' = [op |-> "get_low_vol_safe_symbols", start_ts |-> start_ts,
                end_ts |-> end_ts, rows |-> FastLowVolSafeSymbols(start_ts, end_ts)]
    /\ UNCHANGED <<facts, mv>>

get_symbol_overview(start_ts, end_ts) ==
    /\ resp' = [op |-> "get_symbol_overview", start_ts |-> start_ts, end_ts |-> end_ts,
                rows |-> FastSymbolOverview(start_ts, end_ts)]
    /\ UNCHANGED <<facts, mv>>

get_symbol_overview_slow(start_ts, end_ts) ==
    /\ resp' = [op |-> "get_symbol_overview_slow", start_ts |-> start_ts, end_ts |-> end_ts,
                rows |-> SlowSymbolOverview(start_ts, end_ts)]
    /\ UNCHANGED <<facts, mv>>

app_get_extreme_regimes(start_ts, end_ts, min_regime_events, top_k) ==
    /\ \E rows \in QUERY_3(start_ts, end_ts, min_regime_events, top_k) :
          resp' = [op |-> "app_get_extreme_regimes", start_ts |-> start_ts,
                   end_ts |-> end_ts, min_events |-> min_regime_events, top_k |-> top_k,
                   rows |-> rows]
    /\ UNCHANGED <<facts, mv>>

get_extreme_regimes(start_ts, end_ts, min_events, top_k) ==
    /\ \E rows \in FastExtremeRegimes(start_ts, end_ts, min_events, top_k) :
          resp' = [op |-> "get_extreme_regimes", start_ts |-> start_ts,
                   end_ts |-> end_ts, min_events |-> min_events, top_k |-> top_k,
                   rows |-> rows]
    /\ UNCHANGED <<facts, mv>>

app_get_funding_deciles(start_ts, end_ts) ==
    /\ \E rows \in QUERY_2(start_ts, end_ts) :
          resp' = [op |-> "app_get_funding_deciles", start_ts |-> start_ts,
                   end_ts |-> end_ts, rows |-> rows]
    /\ UNCHANGED <<facts, mv>>

get_funding_deciles_slow(start_ts, end_ts) ==
    /\ \E rows \in SlowFundingDeciles(start_ts, end_ts) :
          resp' = [op |-> "get_funding_deciles_slow", start_ts |-> start_ts,
                   end_ts |-> end_ts, rows |-> rows]
    /\ UNCHANGED <<facts, mv>>

app_get_vol_regimes(start_ts, end_ts) ==
    /\ \E rows \in QUERY_6(start_ts, end_ts) :
          resp' = [op |-> "app_get_vol_regimes", start_ts |-> start_ts,
                   end_ts |-> end_ts, rows |-> rows]
    /\ UNCHANGED <<facts, mv>>

app_get_avg_rv_30m(start_ts, end_ts) ==
    /\ \E rows \in QUERY_9(start_ts, end_ts) :
          resp' = [op |-> "app_get_avg_rv_30m", start_ts |-> start_ts,
                   end_ts |-> end_ts, rows |-> rows]
    /\ UNCHANGED <<facts, mv>>

refreshAll ==
    /\ mv' \in MaterializeAll
    /\ UNCHANGED <<facts, resp>>

(***************************************************************************)
(* Event-CAR study: a few funding events and sparse minute returns around  *)
(* the edges of their windows.                                             *)
(***************************************************************************)
MaxFunding == 2
MaxReturns == 3

KeysUnique(rows) == \A r1, r2 \in rows : (r1.symbol = r2.symbol /\ r1.ts = r2.ts) => r1 = r2

BoundedTables(cand, n) == {t \in SUBSET cand : Cardinality(t) <= n /\ KeysUnique(t)}

CarFundingRows == {[symbol |-> "A", ts |-> 61, rate |-> 1],
                   [symbol |-> "A", ts |-> 62, rate |-> 1],
                   [symbol |-> "B", ts |-> 61, rate |-> 1]}

CarReturnRows ==
    {[symbol |-> "A", ts |-> t, r1m |-> v] : t \in {0, 1, 61, 241, 242}, v \in {-1, 1}}
    \cup {[symbol |-> "B", ts |-> 61, r1m |-> 1]}

InitCar ==
    /\ symbols = Symbols
    /\ funding \in BoundedTables(CarFundingRows, MaxFunding)
    /\ minute_returns \in BoundedTables(CarReturnRows, MaxReturns)
    /\ open_interest = {}
    /\ klines = {}
    /\ mv \in MaterializeAll
    /\ resp = NoResponse

NextCar ==
    \/ \E s \in Symbols, t0 \in ReqTimes, t1 \in ReqTimes : app_get_event_car(s, t0, t1)
    \/ \E s \in Symbols, t0 \in ReqTimes, t1 \in ReqTimes : get_event_car(s, t0, t1)
    \/ \E s \in Symbols, t0 \in ReqTimes, t1 \in ReqTimes : get_event_car_slow(s, t0, t1)
    \/ refreshAll

SpecCar == InitCar /\ [][NextCar]_vars

(***************************************************************************)
(* C1: for every symbol and range, the slow-path eventCar returns exactly  *)
(* the rows of the fast-path eventCar read from the EventCar view.         *)
(* Stated as the claim makes it; the slow path zeroes the returns before   *)
(* the event, so it fails.                                                 *)
(***************************************************************************)
C1_SlowEventCarEqualsFast ==
    resp.op = "get_event_car_slow"
        => resp.rows = FastEventCar(resp.symbol, resp.start_ts, resp.end_ts)

(***************************************************************************)
(* The scenario of a dense minute series: one funding event of A at        *)
(* midnight of day 1 and a return of one unit (0.001) at every minute from *)
(* 60 minutes before to 180 minutes after it, with or without returns just *)
(* outside the window.                                                     *)
(***************************************************************************)
MaxExtra == 1

\* Midnight of day 1.
DenseEventTs == DayMinutes

DenseFundingRows == {[symbol |-> "A", ts |-> DenseEventTs, rate |-> 1]}

DenseReturnRows ==
    {[symbol |-> "A", ts |-> t, r1m |-> 1]
     : t \in (DenseEventTs - CarPreMinutes) .. (DenseEventTs + CarPostMinutes)}

DenseExtraRows ==
    {[symbol |-> "A", ts |-> t, r1m |-> v]
     : t \in {DenseEventTs - CarPreMinutes - 1, DenseEventTs + CarPostMinutes + 1},
       v \in {-5, 5}}

DenseReqTimes == {DenseEventTs, DenseEventTs + 1}

InitDense ==
    /\ symbols = Symbols
    /\ funding = DenseFundingRows
    /\ \E extra \in BoundedTables(DenseExtraRows, MaxExtra) :
          minute_returns = DenseReturnRows \cup extra
    /\ open_interest = {}
    /\ klines = {}
    /\ mv \in MaterializeAll
    /\ resp = NoResponse

NextDense ==
    \/ \E s \in Symbols, t0 \in DenseReqTimes, t1 \in DenseReqTimes :
          app_get_event_car(s, t0, t1)
    \/ \E s \in Symbols, t0 \in DenseReqTimes, t1 \in DenseReqTimes :
          get_event_car(s, t0, t1)
    \/ \E s \in Symbols, t0 \in DenseReqTimes, t1 \in DenseReqTimes :
          get_event_car_slow(s, t0, t1)
    \/ refreshAll

SpecDense == InitDense /\ [][NextDense]_vars

\* The response is the eventCar row of the scenario's event.
DenseEventServed(op) ==
    /\ resp.op = op
    /\ resp.symbol = "A"
    /\ Between(DenseEventTs, resp.start_ts, resp.end_ts)

MarkoutFundingRows == {[symbol |-> "A", ts |-> 1, rate |-> 1],
                       [symbol |-> "A", ts |-> 61, rate |-> 1],
                       [symbol |-> "B", ts |-> 61, rate |-> 1]}

MarkoutReturnRows ==
    {[symbol |-> "A", ts |-> t, r1m |-> v] : t \in {1, 2, 61, 62, 121, 122}, v \in {-1, 2}}
    \cup {[symbol |-> "B", ts |-> 121, r1m |-> 1]}

MarkoutReqTimes == {1, 61}

InitMarkout ==
    /\ symbols = Symbols
    /\ funding \in BoundedTables(MarkoutFundingRows, MaxFunding)
    /\ minute_returns \in BoundedTables(MarkoutReturnRows, MaxReturns)
    /\ open_interest = {}
    /\ klines = {}
    /\ mv \in MaterializeAll
    /\ resp = NoResponse

NextMarkout ==
    \/ \E t0 \in MarkoutReqTimes, t1 \in MarkoutReqTimes : app_get_hourly_markouts(t0, t1)
    \/ \E t0 \in MarkoutReqTimes, t1 \in MarkoutReqTimes : get_hourly_markouts(t0, t1)
    \/ \E t0 \in MarkoutReqTimes, t1 \in MarkoutReqTimes : get_hourly_markouts_slow(t0, t1)
    \/ refreshAll

SpecMarkout == InitMarkout /\ [][NextMarkout]_vars

(***************************************************************************)
(* C4: for every range, the slow-path hourlyMarkouts (markouts of all      *)
(* funding events, then the range filter) returns the rows of the fast     *)
(* path over the EventMarkout view and of QUERY_5, which filters the       *)
(* funding events by the range before it computes the markouts.            *)
(***************************************************************************)
C4_HourlyMarkoutsAgree ==
    resp.op = "get_hourly_markouts_slow"
        => /\ resp.rows = FastHourlyMarkouts(resp.start_ts, resp.end_ts)
           /\ resp.rows = QUERY_5(resp.start_ts, resp.end_ts)

\* A slow-path response with a row, a markout of an event outside the range
\* having been computed and filtered away.
C4_Witness ==
    /\ resp.op = "get_hourly_markouts_slow"
    /\ Len(resp.rows) >= 1
    /\ \E e \in Slow5_all_event_markouts : ~Between(e.ts, resp.start_ts, resp.end_ts)

\* The sum of r1m over pairs <<event, minute return>>.
RECURSIVE C10_PairSum(_)
C10_PairSum(pairs) ==
    IF pairs = {} THEN 0
    ELSE LET p == CHOOSE x \in pairs : TRUE
         IN p[2].r1m + C10_PairSum(pairs \ {p})

\* The events of the range in hour h with their minute returns in (ts, ts + 60].
C10_Pairs(start, end, h) ==
    {p \in funding \X minute_returns :
        /\ Between(p[1].ts, start, end)
        /\ EXTRACT_HOUR(p[1].ts) = h
        /\ p[2].symbol = p[1].symbol
        /\ p[1].ts < p[2].ts
        /\ p[2].ts <= p[1].ts + 60}

(***************************************************************************)
(* C10: the 60-minute markout of an event at ts sums r1m over the          *)
(* same-symbol minute returns with ts < t <= ts + 60min and nothing else;  *)
(* an event with no return there has no markout row and is not counted:    *)
(* each hour's row of hourlyMarkouts counts the events that have such a    *)
(* return and averages the sum of those returns, and an hour without such  *)
(* an event has no row.                                                    *)
(***************************************************************************)
C10_MarkoutInterval ==
    resp.op \in {"app_get_hourly_markouts", "get_hourly_markouts_slow"}
        => /\ \A i \in 1 .. Len(resp.rows) :
                 LET row == resp.rows[i]
                     pairs == C10_Pairs(resp.start_ts, resp.end_ts, row.funding_hour)
                 IN /\ row.n_events = Cardinality({p[1] : p \in pairs})
                    /\ row.n_events >= 1
                    /\ row.avg_markout_60m.num = C10_PairSum(pairs)
                    /\ row.avg_markout_60m.den = row.n_events
           /\ \A h \in 0 .. 23 :
                 C10_Pairs(resp.start_ts, resp.end_ts, h) # {}
                     => \E i \in 1 .. Len(resp.rows) : resp.rows[i].funding_hour = h

\* A response that counts an event whose symbol has returns at the event's own
\* minute and just past ts + 60min, and leaves out an event of the range with
\* no return in its interval.
C10_Witness ==
    /\ resp.op = "app_get_hourly_markouts"
    /\ Len(resp.rows) >= 1
    /\ \E f \in funding :
          /\ Between(f.ts, resp.start_ts, resp.end_ts)
          /\ Q5_joined(f) # {}
          /\ \E mr \in minute_returns : mr.symbol = f.symbol /\ mr.ts = f.ts
    /\ \E f \in funding :
          /\ Between(f.ts, resp.start_ts, resp.end_ts)
          /\ Q5_joined(f) = {}

(***************************************************************************)
(* Volatility study: funding events a minute apart on day 1 and minute     *)
(* returns inside and outside the hour and the day before them.            *)
(***************************************************************************)
VolFundingRows == {[symbol |-> "A", ts |-> 1441, rate |-> 1],
                   [symbol |-> "A", ts |-> 1442, rate |-> 1],
                   [symbol |-> "B", ts |-> 1442, rate |-> 1]}

VolReturnRows ==
    {[symbol |-> "A", ts |-> t, r1m |-> v] : t \in {1, 1381, 1441, 1442, 1443}, v \in {-1, 1}}
    \cup {[symbol |-> "B", ts |-> 1442, r1m |-> 1], [symbol |-> "B", ts |-> 1443, r1m |-> -1]}

VolReqTimes == {1441, 1442}

InitVol ==
    /\ symbols = Symbols
    /\ funding \in BoundedTables(VolFundingRows, MaxFunding)
    /\ minute_returns \in BoundedTables(VolReturnRows, MaxReturns)
    /\ open_interest = {}
    /\ klines = {}
    /\ mv \in MaterializeAll
    /\ resp = NoResponse

NextVol ==
    \/ \E t0 \in VolReqTimes, t1 \in VolReqTimes : get_vol_regime_markouts(t0, t1)
    \/ \E t0 \in VolReqTimes, t1 \in VolReqTimes : get_vol_regime_markouts_slow(t0, t1)
    \/ \E t0 \in VolReqTimes, t1 \in VolReqTimes : app_get_never_negative_lowvol(t0, t1)
    \/ \E t0 \in VolReqTimes, t1 \in VolReqTimes : get_low_vol_safe_symbols(t0, t1)
    \/ refreshAll

SpecVol == InitVol /\ [][NextVol]_vars

(***************************************************************************)
(* C2: for every range, the slow-path volRegimeMarkouts, whose NTILE(3)    *)
(* ranks only the events inside the range, returns the rows of the fast    *)
(* path, whose vol_regime was split across all events.  Stated as the      *)
(* claim makes it, on the facts where the split is unambiguous; it fails   *)
(* when the range leaves an event out.                                     *)
(***************************************************************************)
\* Every event of the view has a return in the hour up to it, and no two events
\* tie on rv_1h: the tertile split has one outcome.
C2_Unambiguous ==
    /\ \A r \in mv.event_volatility : Slow6_window(r) # {}
    /\ \A r1, r2 \in mv.event_volatility :
          r1 # r2 => ~(RvOrdered(r1.rv_1h, r2.rv_1h) /\ RvOrdered(r2.rv_1h, r1.rv_1h))

C2_SlowVolRegimesEqualFast ==
    (resp.op = "get_vol_regime_markouts_slow" /\ C2_Unambiguous)
        => resp.rows = FastVolRegimeMarkouts(resp.start_ts, resp.end_ts)

\* An event of the range with a defined rv_1d below the median that is followed
\* by a negative minute return within 30 minutes.
C6_BadEvent(fr, rows) ==
    /\ BelowMedianRv(fr, rows)
    /\ \E mr \in minute_returns :
          mr.symbol = fr.symbol /\ fr.ts < mr.ts /\ mr.ts <= fr.ts + 30 /\ mr.r1m < 0

(***************************************************************************)
(* C6: neverNegativeLowVol returns a symbol if and only if none of the     *)
(* symbol's funding events in the range is both below the median realized  *)
(* volatility and followed by a negative minute return in (ts, ts+30min];  *)
(* one such event keeps the symbol out whatever its other events.  Stated  *)
(* as the claim makes it, over the symbols with an event row in the range; *)
(* the query keeps a symbol that has any event passing NOT EXISTS.         *)
(***************************************************************************)
C6_ReturnedIffNoBadEvent ==
    resp.op = "app_get_never_negative_lowvol"
        => LET rows == Q4_funding_rv(resp.start_ts, resp.end_ts)
           IN \A sym \in {r.symbol : r \in rows} :
                  (\E i \in 1 .. Len(resp.rows) : resp.rows[i].symbol = sym)
                      <=> ~\E fr \in rows : fr.symbol = sym /\ C6_BadEvent(fr, rows)

(***************************************************************************)
(* Symbol overview study: klines on day 0 and day 1 with different         *)
(* volumes, funding events on both days.                                   *)
(***************************************************************************)
MaxKlines == 3

OverviewKlineRows ==
    {[symbol |-> "A", open_time |-> t, volume |-> v] : t \in {0, 1, DayMinutes}, v \in {1, 3}}
    \cup {[symbol |-> "B", open_time |-> 0, volume |-> 1]}

OverviewFundingRows == {[symbol |-> "A", ts |-> 1, rate |-> 1],
                        [symbol |-> "A", ts |-> DayMinutes + 1, rate |-> 1],
                        [symbol |-> "B", ts |-> 1, rate |-> 1]}

OverviewReqTimes == {0, DayMinutes - 1, 2 * DayMinutes - 1}

InitOverview ==
    /\ symbols = Symbols
    /\ funding \in BoundedTables(OverviewFundingRows, MaxFunding)
    /\ minute_returns = {}
    /\ open_interest = {}
    /\ klines \in {t \in SUBSET OverviewKlineRows :
                      /\ Cardinality(t) <= MaxKlines
                      /\ \A k1, k2 \in t :
                            (k1.symbol = k2.symbol /\ k1.open_time = k2.open_time) => k1 = k2}
    /\ mv \in MaterializeAll
    /\ resp = NoResponse

NextOverview ==
    \/ \E t0 \in OverviewReqTimes, t1 \in OverviewReqTimes : get_symbol_overview(t0, t1)
    \/ \E t0 \in OverviewReqTimes, t1 \in OverviewReqTimes : get_symbol_overview_slow(t0, t1)
    \/ refreshAll

SpecOverview == InitOverview /\ [][NextOverview]_vars

\* The range is made of whole calendar days, every funding event lies in it, and
\* every symbol-day with a funding event has klines.
C3_WholeDaysCovered ==
    /\ resp.start_ts % DayMinutes = 0
    /\ (resp.end_ts + 1) % DayMinutes = 0
    /\ \A f \in funding :
          /\ Between(f.ts, resp.start_ts, resp.end_ts)
          /\ \E k \in klines : k.symbol = f.symbol /\ DATE(k.open_time) = DATE(f.ts)

(***************************************************************************)
(* C3: for every range, the slow-path symbolOverview returns the same      *)
(* (symbol, n_klines, n_funding_events, avg_kline_volume) rows as the fast *)
(* path over the per-symbol-day rollup.  Stated as the claim makes it, on  *)
(* ranges of whole days that hold every funding event; it fails when the   *)
(* days of the range hold different numbers of klines.                     *)
(***************************************************************************)
C3_SlowOverviewEqualsFast ==
    (resp.op = "get_symbol_overview_slow" /\ C3_WholeDaysCovered)
        => resp.rows = FastSymbolOverview(resp.start_ts, resp.end_ts)

(***************************************************************************)
(* Extreme-regime study: two funding events per symbol-day, open-interest  *)
(* snapshots at and next to the event timestamps, one minute return after  *)
(* each candidate event.                                                   *)
(***************************************************************************)
RegimeFundingRows ==
    {[symbol |-> "A", ts |-> 10, rate |-> 1], [symbol |-> "A", ts |-> 20, rate |-> -2],
     [symbol |-> "A", ts |-> 2 * DayMinutes + 10, rate |-> 1],
     [symbol |-> "A", ts |-> 2 * DayMinutes + 20, rate |-> 3],
     [symbol |-> "B", ts |-> 10, rate |-> 1], [symbol |-> "B", ts |-> 20, rate |-> 2]}

RegimeOiBase == {[symbol |-> "A", ts |-> 5, oi |-> 1], [symbol |-> "B", ts |-> 5, oi |-> 1]}

RegimeOiRows ==
    {[symbol |-> "A", ts |-> 19, oi |-> 4], [symbol |-> "A", ts |-> 20, oi |-> 5],
     [symbol |-> "A", ts |-> 2 * DayMinutes + 20, oi |-> 9],
     [symbol |-> "B", ts |-> 20, oi |-> 5]}

RegimeReturnRows ==
    {[symbol |-> sym, ts |-> 21, r1m |-> v] : sym \in Symbols, v \in {1, 2}}
    \cup {[symbol |-> "A", ts |-> 2 * DayMinutes + 21, r1m |-> 1]}

RegimeStarts == {0, 20}
RegimeEnds == {DayMinutes - 1, 3 * DayMinutes - 1}
RegimeMinEvents == {1, 2, 100}
RegimeTopK == {1, 2}

InitRegime ==
    /\ symbols = Symbols
    /\ funding = RegimeFundingRows
    /\ minute_returns \in {t \in SUBSET RegimeReturnRows : KeysUnique(t)}
    /\ open_interest \in {RegimeOiBase \cup t : t \in SUBSET RegimeOiRows}
    /\ klines = {}
    /\ mv \in MaterializeAll
    /\ resp = NoResponse

NextRegime ==
    \/ \E t0 \in RegimeStarts, t1 \in RegimeEnds, m \in RegimeMinEvents, k \in RegimeTopK :
          app_get_extreme_regimes(t0, t1, m, k)
    \/ \E t0 \in RegimeStarts, t1 \in RegimeEnds, m \in RegimeMinEvents, k \in RegimeTopK :
          get_extreme_regimes(t0, t1, m, k)
    \/ refreshAll

SpecRegime == InitRegime /\ [][NextRegime]_vars

\* The request of the last response was an extremeRegimes request.
C7_Served == resp.op \in {"app_get_extreme_regimes", "get_extreme_regimes"}

\* The symbol groups of the request, before HAVING, ORDER BY and LIMIT.
C7_Groups ==
    IF resp.op = "app_get_extreme_regimes"
    THEN GroupBySymbol(Q3_event_markouts(resp.start_ts, resp.end_ts))
    ELSE GroupBySymbol(Fast3_joined(resp.start_ts, resp.end_ts))

C7_Returned == {resp.rows[i] : i \in DOMAIN resp.rows}

C8_WithSnapshot(sym) ==
    {f \in funding :
        f.symbol = sym /\ \E o \in open_interest : o.symbol = sym /\ o.ts = f.ts}

(***************************************************************************)
(* C8: the open-interest join of extremeRegimes is by exact equality of    *)
(* (symbol, timestamp): n_events of a returned symbol counts only funding  *)
(* events with an open-interest snapshot at exactly their timestamp.       *)
(***************************************************************************)
C8_ExactOiJoin ==
    C7_Served =>
        \A r \in C7_Returned : r.n_events <= Cardinality(C8_WithSnapshot(r.symbol))

\* A funding event in the range has no snapshot at its timestamp but a larger
\* one a minute before, exceeds its symbol-day p90 and has a markout; with
\* min_events = 1 its symbol is still not returned.
C8_Witness ==
    /\ C7_Served
    /\ resp.min_events = 1
    /\ \E f \in funding :
          /\ Between(f.ts, resp.start_ts, resp.end_ts)
          /\ C8_WithSnapshot(f.symbol) = {}
          /\ \E o \in open_interest, p \in open_interest :
                /\ o.symbol = f.symbol /\ o.ts = f.ts - 1
                /\ p.symbol = f.symbol /\ p.ts < o.ts /\ p.oi < o.oi
          /\ \E dr \in mv.daily_rate_stats :
                /\ dr.symbol = f.symbol /\ dr.d = DATE(f.ts)
                /\ ExceedsP90(ABS(f.rate), dr.p90_abs_rate)
          /\ Q3_joined(f) # {}
          /\ \A r \in C7_Returned : r.symbol # f.symbol

(***************************************************************************)
(* Decile study: symbol A has exactly ten funding events on day 0, with    *)
(* distinct rates; symbol B has up to MaxOthers events on day 0 or day 2.  *)
(* The minute returns follow the last event of their day.                  *)
(***************************************************************************)
MaxOthers == 2

DecileTenRows ==
    {[symbol |-> "A", ts |-> 100 * i, rate |-> (3 * i) % 11] : i \in 1 .. Deciles}

DecileOtherRows ==
    {[symbol |-> "B", ts |-> t, rate |-> r] : t \in {50, 950}, r \in {0, 6, 11}}
    \cup {[symbol |-> "B", ts |-> 2 * DayMinutes + 50, rate |-> 5]}

DecileReturnRows ==
    {[symbol |-> "A", ts |-> 1001, r1m |-> 2], [symbol |-> "B", ts |-> 1001, r1m |-> 1],
     [symbol |-> "B", ts |-> 2 * DayMinutes + 51, r1m |-> 1]}

DecileStarts == {0, 500}
DecileEnds == {DayMinutes - 1, 3 * DayMinutes - 1}

InitDecile ==
    /\ symbols = Symbols
    /\ funding \in {DecileTenRows \cup t : t \in BoundedTables(DecileOtherRows, MaxOthers)}
    /\ minute_returns \in SUBSET DecileReturnRows
    /\ open_interest = {}
    /\ klines = {}
    /\ mv \in MaterializeAll
    /\ resp = NoResponse

NextDecile ==
    \/ \E t0 \in DecileStarts, t1 \in DecileEnds : app_get_funding_deciles(t0, t1)
    \/ \E t0 \in DecileStarts, t1 \in DecileEnds : get_funding_deciles_slow(t0, t1)
    \/ refreshAll

SpecDecile == InitDecile /\ [][NextDecile]_vars

\* The decile assignments the last request may have used: QUERY_2 ranks the
\* events of its range, the slow path all events.
C9_Assignments ==
    IF resp.op = "app_get_funding_deciles"
    THEN Q2_funding_with_decile(resp.start_ts, resp.end_ts)
    ELSE Slow2_all_funding_with_decile

\* The request was a fundingDeciles request whose range holds every funding
\* event of calendar day d.
C9_Served(d) ==
    /\ resp.op \in {"app_get_funding_deciles", "get_funding_deciles_slow"}
    /\ \A f \in funding : DATE(f.ts) = d => Between(f.ts, resp.start_ts, resp.end_ts)

\* The rows of evs in assignment a have the deciles 1..10, each once.
C9_OneEach(a, evs) ==
    /\ {r.rate_decile : r \in {x \in a : [symbol |-> x.symbol, ts |-> x.ts, rate |-> x.rate]
                                             \in evs}} = 1 .. Deciles
    /\ \A r1, r2 \in a :
          ([symbol |-> r1.symbol, ts |-> r1.ts, rate |-> r1.rate] \in evs
              /\ [symbol |-> r2.symbol, ts |-> r2.ts, rate |-> r2.rate] \in evs
              /\ r1.rate < r2.rate) => r1.rate_decile < r2.rate_decile

\* Exactly ten rows, with distinct rates.
C9_TenDistinct(evs) ==
    /\ Cardinality(evs) = Deciles
    /\ \A f1, f2 \in evs : f1 # f2 => f1.rate # f2.rate

InitRv ==
    /\ symbols = Symbols
    /\ funding \in BoundedTables(VolFundingRows, MaxFunding)
    /\ minute_returns \in BoundedTables(VolReturnRows, MaxReturns)
    /\ open_interest = {}
    /\ klines = {}
    /\ mv \in MaterializeAll
    /\ resp = NoResponse

NextRv ==
    \/ \E t0 \in VolReqTimes, t1 \in VolReqTimes : app_get_vol_regimes(t0, t1)
    \/ \E t0 \in VolReqTimes, t1 \in VolReqTimes : app_get_avg_rv_30m(t0, t1)
    \/ refreshAll

SpecRv == InitRv /\ [][NextRv]_vars

\* The funding events of the range whose window of QUERY_9 holds exactly one
\* minute return.
C11_OneSample9 ==
    {f \in funding : /\ Between(f.ts, resp.start_ts, resp.end_ts)
                     /\ Cardinality(Q9_window(f)) = 1}

\* The funding events of the range whose window of QUERY_6 holds exactly one
\* minute return.
C11_OneSample6 ==
    {f \in funding : /\ Between(f.ts, resp.start_ts, resp.end_ts)
                     /\ Cardinality(Q6_window(f)) = 1}

\* The rows of the last response.
C11_Rows == {resp.rows[i] : i \in DOMAIN resp.rows}

(***************************************************************************)
(* C11: an event whose realized-volatility window holds exactly one minute *)
(* return has a NULL realized volatility, not zero, and the query returns  *)
(* its rows all the same.  In QUERY_9 the event is counted in n_events of  *)
(* its symbol and left out of the average, which is NULL when the symbol   *)
(* has no other event with a defined volatility, and every symbol with an  *)
(* event row is returned.  In QUERY_6 the event's rv_1h is NULL and every  *)
(* event of the range with a return in its hour and a markout is counted   *)
(* in some regime.                                                         *)
(***************************************************************************)
C11_OneSampleIsNull ==
    /\ resp.op = "app_get_avg_rv_30m" =>
          /\ \A f \in C11_OneSample9 :
                \E r \in C11_Rows :
                    /\ r.symbol = f.symbol
                    /\ r.n_events = Cardinality({e \in Q9_event_rv(resp.start_ts, resp.end_ts) :
                                                    e.symbol = f.symbol})
                    /\ \A t \in r.avg_rv_30m.terms : t.ts # f.ts
                    /\ r.avg_rv_30m.null <=>
                          \A g \in funding :
                              (g.symbol = f.symbol
                                  /\ Between(g.ts, resp.start_ts, resp.end_ts))
                                  => Cardinality(Q9_window(g)) < 2
          /\ {r.symbol : r \in C11_Rows}
                = {f.symbol : f \in {g \in funding :
                                        /\ Between(g.ts, resp.start_ts, resp.end_ts)
                                        /\ Q9_window(g) # {}}}
    /\ resp.op = "app_get_vol_regimes" =>
          /\ \A f \in C11_OneSample6 :
                \A e \in Q6_event_vol(resp.start_ts, resp.end_ts) :
                    (e.symbol = f.symbol /\ e.ts = f.ts) => e.rv_1h.null
          /\ SUM_markout_60m({[markout_60m |-> r.n_events, vol_regime |-> r.vol_regime]
                              : r \in C11_Rows})
                = Cardinality({f \in funding :
                                  /\ Between(f.ts, resp.start_ts, resp.end_ts)
                                  /\ Q6_window(f) # {}
                                  /\ Q6_joined(f) # {}})

\* QUERY_9 was served on a range where a symbol has one event with a single
\* return in its window and another with a defined volatility: the row's average
\* is not NULL and counts both events.
C11_Witness ==
    /\ resp.op = "app_get_avg_rv_30m"
    /\ \E f \in C11_OneSample9, r \in C11_Rows :
          /\ r.symbol = f.symbol
          /\ r.n_events = 2
          /\ ~r.avg_rv_30m.null

(***************************************************************************)
(* Ingestion (python/load_data.py).  A text is a sequence of characters; a *)
(* CSV field is a text, or missing from the row.  The texts of timestamps  *)
(* and numbers are kept by what the parsers make of them: a complete       *)
(* timestamp, a time of day without a date (which dateutil completes with  *)
(* the date of the run), a number, or a text no parser accepts.            *)
(***************************************************************************)
\* str.upper() on one character.
UpperChar(c) == IF c = "a" THEN "A" ELSE IF c = "b" THEN "B" ELSE c

upper(text) == [i \in DOMAIN text |-> UpperChar(text[i])]

\* str.strip(): the text without its leading and trailing whitespace.
RECURSIVE strip(_)
strip(text) ==
    IF text = <<>> THEN text
    ELSE IF Head(text) = " " THEN strip(Tail(text))
    ELSE IF text[Len(text)] = " " THEN strip(SubSeq(text, 1, Len(text) - 1))
    ELSE text

\* The outcome of a parser that failed: the helpers return None.
None == [ok |-> FALSE, v |-> 0]

\* _safe_parse_ts on a timestamp field, in a run on calendar day today.
safe_parse_ts(raw_ts, today) ==
    IF raw_ts.kind = "full" THEN [ok |-> TRUE, v |-> raw_ts.minute]
    ELSE IF raw_ts.kind = "time" THEN [ok |-> TRUE, v |-> today * DayMinutes + raw_ts.minute]
    ELSE None

\* _safe_float on a number field.
safe_float(raw_val) ==
    IF raw_val.kind \in {"int", "dec"} THEN [ok |-> TRUE, v |-> raw_val.v] ELSE None

\* _safe_int on a number field: int() accepts no decimal point.
safe_int(raw_val) ==
    IF raw_val.kind = "int" THEN [ok |-> TRUE, v |-> raw_val.v] ELSE None

\* INSERT ... ON CONFLICT (symbol, ts) DO NOTHING of the rows of batch, in order.
RECURSIVE InsertDoNothing(_, _)
InsertDoNothing(table, batch) ==
    IF batch = <<>> THEN table
    ELSE LET r == Head(batch)
             t == IF \E x \in table : x.symbol = r.symbol /\ x.ts = r.ts
                  THEN table ELSE table \cup {r}
         IN InsertDoNothing(t, Tail(batch))

\* The symbol a CSV loader reads from a row: (row.get("symbol") or "").upper().strip().
RowSymbol(row) == IF row.symbol.missing THEN <<>> ELSE strip(upper(row.symbol.text))

\* The rows a CSV loader appends to its batch from the rows of a file, each as
\* [symbol, ts, v], and the rows it skips.
RECURSIVE CsvGoodRows(_, _)
CsvGoodRows(file, today) ==
    IF file = <<>> THEN <<>>
    ELSE LET row == Head(file)
             sym == RowSymbol(row)
             ts == safe_parse_ts(row.ts, today)
             val == safe_float(row.val)
         IN IF sym = <<>> \/ ~ts.ok \/ ~val.ok
            THEN CsvGoodRows(Tail(file), today)
            ELSE <<[symbol |-> sym, ts |-> ts.v, v |-> val.v]>>
                     \o CsvGoodRows(Tail(file), today)

\* init_symbols(symbols): every entry that is not empty is normalised and
\* inserted ON CONFLICT (symbol) DO NOTHING.
init_symbols(list) ==
    /\ symbols' = symbols \cup {strip(upper(list[i])) : i \in {j \in DOMAIN list : list[j] # <<>>}}
    /\ resp' = [op |-> "init_symbols", list |-> list]
    /\ UNCHANGED <<funding, minute_returns, open_interest, klines, mv>>

load_synthetic_funding(file, today) ==
    LET good == CsvGoodRows(file, today)
    IN /\ funding' = InsertDoNothing(funding,
                                     [i \in DOMAIN good |->
                                         [symbol |-> good[i].symbol, ts |-> good[i].ts,
                                          rate |-> good[i].v]])
       /\ resp' = [op |-> "load_synthetic_funding", file |-> file, today |-> today,
                   good |-> Len(good), bad |-> Len(file) - Len(good)]
       /\ UNCHANGED <<symbols, minute_returns, open_interest, klines, mv>>

load_synthetic_open_interest(file, today) ==
    LET good == CsvGoodRows(file, today)
    IN /\ open_interest' = InsertDoNothing(open_interest,
                                           [i \in DOMAIN good |->
                                               [symbol |-> good[i].symbol, ts |-> good[i].ts,
                                                oi |-> good[i].v]])
       /\ resp' = [op |-> "load_synthetic_open_interest", file |-> file, today |-> today,
                   good |-> Len(good), bad |-> Len(file) - Len(good)]
       /\ UNCHANGED <<symbols, funding, minute_returns, klines, mv>>

(***************************************************************************)
(* Ingestion study: CSV files of up to MaxRows rows, loaded on day 0 or    *)
(* day 1, and symbol lists of up to MaxRows entries.                       *)
(***************************************************************************)
MaxRows == 2

Text(t) == [missing |-> FALSE, text |-> t]

NoField == [missing |-> TRUE, text |-> <<>>]

CsvRows ==
    {[symbol |-> Text(<<" ", "a">>), ts |-> [kind |-> "full", minute |-> 10],
      val |-> [kind |-> "dec", v |-> 5]],
     [symbol |-> Text(<<"A">>), ts |-> [kind |-> "time", minute |-> 10],
      val |-> [kind |-> "dec", v |-> -5]],
     [symbol |-> Text(<<" ">>), ts |-> [kind |-> "full", minute |-> 10],
      val |-> [kind |-> "dec", v |-> 5]],
     [symbol |-> Text(<<"b">>), ts |-> [kind |-> "bad", minute |-> 0],
      val |-> [kind |-> "dec", v |-> 5]],
     [symbol |-> NoField, ts |-> [kind |-> "missing", minute |-> 0],
      val |-> [kind |-> "bad", v |-> 0]]}

CsvFiles == UNION {[1 .. n -> CsvRows] : n \in 0 .. MaxRows}

RawSymbols == {<<>>, <<" ">>, <<"a">>, <<"B", " ">>}

SymbolLists == UNION {[1 .. n -> RawSymbols] : n \in 0 .. MaxRows}

LoadDays == {0, 1}

InitLoad ==
    /\ symbols = {}
    /\ funding = {}
    /\ minute_returns = {}
    /\ open_interest = {}
    /\ klines = {}
    /\ mv \in MaterializeAll
    /\ resp = NoResponse

NextLoad ==
    \/ \E file \in CsvFiles, today \in LoadDays : load_synthetic_funding(file, today)
    \/ \E file \in CsvFiles, today \in LoadDays : load_synthetic_open_interest(file, today)

SpecLoad == InitLoad /\ [][NextLoad]_vars

\* The loaders of CSV files.
C12_Loaders == {"load_synthetic_funding", "load_synthetic_open_interest"}

(***************************************************************************)
(* C12: running a loader a second time on a file that was already ingested *)
(* leaves the number of rows of every fact table unchanged.  Stated as the *)
(* claim makes it, on two consecutive runs of one loader on one file; it   *)
(* fails when the file holds a time of day without a date and the second   *)
(* run happens on another day.                                             *)
(***************************************************************************)
C12_ReloadKeepsCounts ==
    [][(resp.op \in C12_Loaders /\ resp'.op = resp.op /\ resp'.file = resp.file)
          => /\ Cardinality(funding') = Cardinality(funding)
             /\ Cardinality(open_interest') = Cardinality(open_interest)]_vars

(***************************************************************************)
(* C16: every open-interest row the loader inserts has oi >= 0.  Stated as *)
(* the claim makes it; the loader checks that oi is a number and not its   *)
(* sign.                                                                   *)
(***************************************************************************)
C16_OiNonNegative == \A o \in open_interest : o.oi >= 0

(***************************************************************************)
(* Klines ingestion (load_klines_from_folder).  A folder is a sequence of  *)
(* files, a file has the symbol its name starts with and the rows of its   *)
(* CSV, and a row is the sequence of its fields.  The loader writes the    *)
(* full klines rows; an exception that no handler catches ends the run,    *)
(* and what the file's transaction had inserted is rolled back.            *)
(***************************************************************************)
\* float(row[0]) succeeds.
FloatOk(field) == field.kind \in {"int", "dec"}

\* What the loop body makes of one row: "bad" (counted as skipped), "header"
\* (skipped, not counted), "good" (appended to the batch), or "raise" when
\* row[1] .. row[8] index past the end of the row.
KlineRowOutcome(row, first) ==
    IF row = <<>> THEN "bad"
    ELSE IF first /\ row[1].kind = "header" THEN "header"
    ELSE IF ~FloatOk(row[1]) THEN "bad"
    ELSE IF Len(row) < 9 THEN "raise"
    ELSE IF \/ \E i \in 2 .. 6 : ~safe_float(row[i]).ok
            \/ ~safe_int(row[9]).ok
         THEN "bad"
    ELSE IF safe_float(row[6]).v < 0 \/ safe_int(row[9]).v < 0 THEN "bad"
    ELSE "good"

\* The tuple appended to the batch for a good row.
KlineTuple(symbol, row) ==
    [symbol |-> symbol, open_time |-> row[1].v,
     open_price |-> safe_float(row[2]).v, high_price |-> safe_float(row[3]).v,
     low_price |-> safe_float(row[4]).v, close_price |-> safe_float(row[5]).v,
     volume |-> safe_float(row[6]).v, number_of_trades |-> safe_int(row[9]).v]

\* The loop over the rows of one file: the batch, the skipped count and
\* whether an exception left the loop.
RECURSIVE KlineRows(_, _, _)
KlineRows(symbol, rows, first) ==
    IF rows = <<>> THEN [raised |-> FALSE, batch |-> <<>>, bad |-> 0]
    ELSE LET out == KlineRowOutcome(Head(rows), first)
             rest == KlineRows(symbol, Tail(rows),
                               IF Head(rows) = <<>> THEN first ELSE FALSE)
         IN IF out = "raise" THEN [raised |-> TRUE, batch |-> <<>>, bad |-> 0]
            ELSE IF out = "bad" THEN [rest EXCEPT !.bad = @ + 1]
            ELSE IF out = "header" THEN rest
            ELSE [rest EXCEPT !.batch = <<KlineTuple(symbol, Head(rows))>> \o @]

\* _insert_klines_batch: ON CONFLICT (symbol, open_time) DO NOTHING.
RECURSIVE insert_klines_batch(_, _)
insert_klines_batch(table, batch) ==
    IF batch = <<>> THEN table
    ELSE LET r == Head(batch)
             t == IF \E x \in table : x.symbol = r.symbol /\ x.open_time = r.open_time
                  THEN table ELSE table \cup {r}
         IN insert_klines_batch(t, Tail(batch))

\* The loop over the files of the folder: the committed table, the totals of
\* the files that finished, and whether an exception ended the run.
RECURSIVE KlineFilesLoop(_, _, _)
KlineFilesLoop(table, files, symbol_set) ==
    IF files = <<>> THEN [table |-> table, aborted |-> FALSE, good |-> 0, bad |-> 0]
    ELSE LET file == Head(files)
             symbol == strip(upper(file.symbol))
         IN IF symbol \notin symbol_set
            THEN KlineFilesLoop(table, Tail(files), symbol_set)
            ELSE LET r == KlineRows(symbol, file.rows, TRUE)
                 IN IF r.raised
                    THEN [table |-> table, aborted |-> TRUE, good |-> 0, bad |-> 0]
                    ELSE LET rest == KlineFilesLoop(insert_klines_batch(table, r.batch),
                                                    Tail(files), symbol_set)
                         IN [rest EXCEPT !.good = @ + Len(r.batch), !.bad = @ + r.bad]

load_klines_from_folder(folder, list) ==
    LET symbol_set == {strip(upper(list[i])) : i \in DOMAIN list}
        r == KlineFilesLoop(klines, folder, symbol_set)
    IN /\ klines' = r.table
       /\ resp' = [op |-> "load_klines_from_folder", folder |-> folder,
                   aborted |-> r.aborted, good |-> r.good, bad |-> r.bad]
       /\ UNCHANGED <<symbols, funding, minute_returns, open_interest, mv>>

(***************************************************************************)
(* Klines ingestion study: folders of up to MaxFiles files for the symbols *)
(* A and B of the list and for a symbol outside it, with well-formed rows, *)
(* a header, rows the loader skips, and a row that ends after its second   *)
(* column.                                                                 *)
(***************************************************************************)
MaxFiles == 2

IntField(v) == [kind |-> "int", v |-> v]

DecField(v) == [kind |-> "dec", v |-> v]

BadField == [kind |-> "bad", v |-> 0]

HeaderRow == <<[kind |-> "header", v |-> 0], BadField, BadField, BadField, BadField, BadField, BadField, BadField, BadField>>

WellFormedRow(t) == <<IntField(t), DecField(1), DecField(2), DecField(1), DecField(2), DecField(7), IntField(t), DecField(0), IntField(3)>>

BadPriceRow == <<IntField(1), DecField(1), BadField, DecField(1), DecField(2), DecField(7), IntField(1), DecField(0), IntField(3)>>

NegativeVolumeRow == <<IntField(1), DecField(1), DecField(2), DecField(1), DecField(2), DecField(-7), IntField(1), DecField(0), IntField(3)>>

DecimalTradesRow == <<IntField(1), DecField(1), DecField(2), DecField(1), DecField(2), DecField(7), IntField(1), DecField(0), DecField(3)>>

BadOpenTimeRow == <<BadField, DecField(1)>>

ShortRow == <<IntField(2), DecField(1)>>

KlineFiles ==
    {[symbol |-> <<"a">>, rows |-> <<HeaderRow, WellFormedRow(1)>>],
     [symbol |-> <<"A">>, rows |-> <<WellFormedRow(1), ShortRow>>],
     [symbol |-> <<"A">>, rows |-> <<BadPriceRow, NegativeVolumeRow, WellFormedRow(2)>>],
     [symbol |-> <<"A">>, rows |-> <<<<>>, BadOpenTimeRow, DecimalTradesRow>>],
     [symbol |-> <<"B">>, rows |-> <<WellFormedRow(1), HeaderRow>>],
     [symbol |-> <<"C">>, rows |-> <<WellFormedRow(1)>>]}

KlineFolders == UNION {[1 .. n -> KlineFiles] : n \in 0 .. MaxFiles}

\* The symbols main() passes to the loader.
KlineSymbols == <<<<"A">>, <<"B">>>>

InitKlines ==
    /\ symbols = {}
    /\ funding = {}
    /\ minute_returns = {}
    /\ open_interest = {}
    /\ klines = {}
    /\ mv \in MaterializeAll
    /\ resp = NoResponse

NextKlines == \E folder \in KlineFolders : load_klines_from_folder(folder, KlineSymbols)

SpecKlines == InitKlines /\ [][NextKlines]_vars

\* The rows of a file that have every column and parse, with a valid sign.
C13_WellFormed(file) ==
    {file.rows[i] : i \in {j \in DOMAIN file.rows :
                              /\ Len(file.rows[j]) >= 9
                              /\ FloatOk(file.rows[j][1])
                              /\ \A c \in 2 .. 6 : safe_float(file.rows[j][c]).ok
                              /\ safe_int(file.rows[j][9]).ok
                              /\ safe_float(file.rows[j][6]).v >= 0
                              /\ safe_int(file.rows[j][9]).v >= 0}}

(***************************************************************************)
(* C13: a run of the klines loader never aborts because of a malformed     *)
(* row, and every well-formed row of every file of a listed symbol is in   *)
(* klines after the run.  Stated as the claim makes it; it fails on a row  *)
(* with a numeric open time and fewer than nine columns.                   *)
(***************************************************************************)
C13_NeverAborts ==
    resp.op = "load_klines_from_folder"
        => /\ ~resp.aborted
           /\ \A i \in DOMAIN resp.folder :
                 strip(upper(resp.folder[i].symbol)) \in {<<"A">>, <<"B">>}
                    => \A row \in C13_WellFormed(resp.folder[i]) :
                          \E k \in klines :
                             /\ k.symbol = strip(upper(resp.folder[i].symbol))
                             /\ k.open_time = row[1].v

(***************************************************************************)
(* The HTTP layer of the endpoints.  A request carries its timestamps as   *)
(* texts: one that denotes a minute, or one no parser accepts.  A response *)
(* records its status code, the connections the request opened, the        *)
(* statements it executed and the rows returned.  The database is          *)
(* reachable.                                                              *)
(***************************************************************************)
\* Mutant: parse_ts never raises, an unparseable text is read as minute 0.
parse_ts_lenient(s) == [ok |-> TRUE, v |-> IF s.kind = "iso" THEN s.minute ELSE 0]

\* parse_ts: isoparse of the text, or HTTPException(400).
parse_ts(s) ==
    IF s.kind = "iso" THEN [ok |-> TRUE, v |-> s.minute] ELSE [ok |-> FALSE, v |-> 0]

\* FastAPI's validation of a parameter declared datetime (main.py): the
\* handler is not called when the text is no datetime, the reply is 422.
validate_datetime(s) ==
    IF s.kind = "iso" THEN [ok |-> TRUE, v |-> s.minute] ELSE [ok |-> FALSE, v |-> 0]

\* The reply to a request whose handler raised before run_query was called.
HTTPException(op, symbol, start_ts, end_ts, status_code) ==
    [op |-> op, symbol |-> symbol, start_ts |-> start_ts, end_ts |-> end_ts,
     status_code |-> status_code, connections |-> 0, executed |-> 0, rows |-> <<>>]

\* run_query: one connection, one statement, the rows, the connection closed.
run_query(op, symbol, start_ts, end_ts, rows) ==
    [op |-> op, symbol |-> symbol, start_ts |-> start_ts, end_ts |-> end_ts,
     status_code |-> 200, connections |-> 1, executed |-> 1, rows |-> rows]

\* run_query on a statement the server rejects: cursor.execute raises, the
\* connection is closed, the reply is 500.
run_query_rejected(op, symbol, start_ts, end_ts) ==
    [op |-> op, symbol |-> symbol, start_ts |-> start_ts, end_ts |-> end_ts,
     status_code |-> 500, connections |-> 1, executed |-> 1, rows |-> <<>>]

\* PostgreSQL's analysis of the text of QUERY_3: OVER on the ordered-set
\* aggregate PERCENTILE_CONT, and oi.oi, which rolling_oi_stats does not
\* select, are errors.
QUERY_3_accepted == FALSE

\* The handlers of app.py, from the query string: both timestamps are parsed
\* before run_query is called.
http_app_get_event_car(symbol, start_ts, end_ts) ==
    LET start == parse_ts(start_ts)
        end == parse_ts(end_ts)
    IN /\ resp' = IF ~start.ok \/ ~end.ok
                  THEN HTTPException("app.get_event_car", symbol, start_ts, end_ts, 400)
                  ELSE run_query("app.get_event_car", symbol, start_ts, end_ts,
                                 QUERY_1(symbol, start.v, end.v))
       /\ UNCHANGED <<facts, mv>>

http_app_get_funding_deciles(start_ts, end_ts) ==
    LET start == parse_ts(start_ts)
        end == parse_ts(end_ts)
    IN /\ IF ~start.ok \/ ~end.ok
          THEN resp' = HTTPException("app.get_funding_deciles", "", start_ts, end_ts, 400)
          ELSE \E rows \in QUERY_2(start.v, end.v) :
                  resp' = run_query("app.get_funding_deciles", "", start_ts, end_ts, rows)
       /\ UNCHANGED <<facts, mv>>

http_app_get_extreme_regimes(start_ts, end_ts, min_regime_events, top_k) ==
    LET start == parse_ts(start_ts)
        end == parse_ts(end_ts)
    IN /\ IF ~start.ok \/ ~end.ok
          THEN resp' = HTTPException("app.get_extreme_regimes", "", start_ts, end_ts, 400)
          ELSE IF ~QUERY_3_accepted
          THEN resp' = run_query_rejected("app.get_extreme_regimes", "", start_ts, end_ts)
          ELSE \E rows \in QUERY_3(start.v, end.v, min_regime_events, top_k) :
                  resp' = run_query("app.get_extreme_regimes", "", start_ts, end_ts, rows)
       /\ UNCHANGED <<facts, mv>>

http_app_get_never_negative_lowvol(start_ts, end_ts) ==
    LET start == parse_ts(start_ts)
        end == parse_ts(end_ts)
    IN /\ resp' = IF ~start.ok \/ ~end.ok
                  THEN HTTPException("app.get_never_negative_lowvol", "", start_ts, end_ts, 400)
                  ELSE run_query("app.get_never_negative_lowvol", "", start_ts, end_ts,
                                 QUERY_4(start.v, end.v))
       /\ UNCHANGED <<facts, mv>>

http_app_get_hourly_markouts(start_ts, end_ts) ==
    LET start == parse_ts(start_ts)
        end == parse_ts(end_ts)
    IN /\ resp' = IF ~start.ok \/ ~end.ok
                  THEN HTTPException("app.get_hourly_markouts", "", start_ts, end_ts, 400)
                  ELSE run_query("app.get_hourly_markouts", "", start_ts, end_ts,
                                 QUERY_5(start.v, end.v))
       /\ UNCHANGED <<facts, mv>>

http_app_get_vol_regimes(start_ts, end_ts) ==
    LET start == parse_ts(start_ts)
        end == parse_ts(end_ts)
    IN /\ IF ~start.ok \/ ~end.ok
          THEN resp' = HTTPException("app.get_vol_regimes", "", start_ts, end_ts, 400)
          ELSE \E rows \in QUERY_6(start.v, end.v) :
                  resp' = run_query("app.get_vol_regimes", "", start_ts, end_ts, rows)
       /\ UNCHANGED <<facts, mv>>

http_app_get_avg_rv_30m(start_ts, end_ts) ==
    LET start == parse_ts(start_ts)
        end == parse_ts(end_ts)
    IN /\ IF ~start.ok \/ ~end.ok
          THEN resp' = HTTPException("app.get_avg_rv_30m", "", start_ts, end_ts, 400)
          ELSE \E rows \in QUERY_9(start.v, end.v) :
                  resp' = run_query("app.get_avg_rv_30m", "", start_ts, end_ts, rows)
       /\ UNCHANGED <<facts, mv>>

\* main.py /api/event_car from the query string: the framework validates the
\* datetime parameters before it calls the handler.
http_get_event_car(symbol, start_ts, end_ts) ==
    LET start == validate_datetime(start_ts)
        end == validate_datetime(end_ts)
    IN /\ resp' = IF ~start.ok \/ ~end.ok
                  THEN HTTPException("get_event_car", symbol, start_ts, end_ts, 422)
                  ELSE run_query("get_event_car", symbol, start_ts, end_ts,
                                 FastEventCar(symbol, start.v, end.v))
       /\ UNCHANGED <<facts, mv>>

(***************************************************************************)
(* HTTP study: the events of the volatility study, requests for the symbol *)
(* A and for a symbol Z that no table holds, with timestamps in either     *)
(* order and a text that is no timestamp.                                  *)
(***************************************************************************)
HttpSymbols == {"A", "Z"}

HttpTimestamps ==
    {[kind |-> "iso", minute |-> t] : t \in VolReqTimes} \cup {[kind |-> "bad", minute |-> 0]}

HttpReturnRows ==
    {[symbol |-> "A", ts |-> t, r1m |-> 1] : t \in {1441, 1442, 1443}}
    \cup {[symbol |-> "B", ts |-> 1442, r1m |-> 1], [symbol |-> "B", ts |-> 1443, r1m |-> -1]}

InitHttp ==
    /\ symbols = Symbols
    /\ funding \in BoundedTables(VolFundingRows, MaxFunding)
    /\ minute_returns \in BoundedTables(HttpReturnRows, MaxReturns)
    /\ open_interest = {}
    /\ klines = {}
    /\ mv \in MaterializeAll
    /\ resp = NoResponse

NextHttp ==
    \/ \E s \in HttpSymbols, t0 \in HttpTimestamps, t1 \in HttpTimestamps :
          http_app_get_event_car(s, t0, t1)
    \/ \E t0 \in HttpTimestamps, t1 \in HttpTimestamps : http_app_get_funding_deciles(t0, t1)
    \/ \E t0 \in HttpTimestamps, t1 \in HttpTimestamps :
          http_app_get_extreme_regimes(t0, t1, 1, 1)
    \/ \E t0 \in HttpTimestamps, t1 \in HttpTimestamps :
          http_app_get_never_negative_lowvol(t0, t1)
    \/ \E t0 \in HttpTimestamps, t1 \in HttpTimestamps : http_app_get_hourly_markouts(t0, t1)
    \/ \E t0 \in HttpTimestamps, t1 \in HttpTimestamps : http_app_get_vol_regimes(t0, t1)
    \/ \E t0 \in HttpTimestamps, t1 \in HttpTimestamps : http_app_get_avg_rv_30m(t0, t1)
    \/ \E s \in HttpSymbols, t0 \in HttpTimestamps, t1 \in HttpTimestamps :
          http_get_event_car(s, t0, t1)

SpecHttp == InitHttp /\ [][NextHttp]_vars

\* The last request carried a timestamp that is no timestamp.
C14_Unparseable ==
    /\ resp.op # "none"
    /\ resp.start_ts.kind = "bad" \/ resp.end_ts.kind = "bad"

(***************************************************************************)
(* C14: a request whose start_ts or end_ts cannot be parsed is answered    *)
(* with a status code of the 400 class, and it opened no database          *)
(* connection and executed no statement.                                   *)
(***************************************************************************)
C14_RejectedBeforeQuery ==
    C14_Unparseable => /\ resp.status_code \in 400 .. 499
                       /\ resp.connections = 0
                       /\ resp.executed = 0
                       /\ resp.rows = <<>>

\* app.py's event_car was asked for a symbol with events and returns, with a
\* start_ts that parses and an end_ts that does not, and answered 400.
C14_Witness ==
    /\ resp.op = "app.get_event_car"
    /\ resp.symbol = "A"
    /\ resp.start_ts.kind = "iso"
    /\ resp.end_ts.kind = "bad"
    /\ resp.status_code = 400
    /\ \E f \in funding : f.symbol = "A" /\ f.ts = resp.start_ts.minute
    /\ \E mr \in minute_returns : mr.symbol = "A"

\* The last request carried two timestamps that parse, and no funding event
\* (of its symbol, when it names one) lies in its range.
C15_NoFacts ==
    /\ resp.op # "none"
    /\ resp.start_ts.kind = "iso"
    /\ resp.end_ts.kind = "iso"
    /\ ~\E f \in funding :
          /\ resp.symbol = "" \/ f.symbol = resp.symbol
          /\ Between(f.ts, resp.start_ts.minute, resp.end_ts.minute)

(***************************************************************************)
(* C15: a request for a symbol without funding events, or for a range that *)
(* holds no facts (start_ts > end_ts included), is answered with an empty  *)
(* list and no error.  Stated as the claim makes it, for every endpoint;   *)
(* it fails on app.py's /api/extreme_regimes, whose statement the server   *)
(* rejects.                                                                *)
(***************************************************************************)
C15_EmptyNotError ==
    C15_NoFacts => resp.status_code = 200 /\ resp.rows = <<>>

\* The same on every endpoint but app.py's /api/extreme_regimes.
C15_EmptyElsewhere ==
    (C15_NoFacts /\ resp.op # "app.get_extreme_regimes")
        => resp.status_code = 200 /\ resp.rows = <<>>

(***************************************************************************)
(* Symbol study: init_symbols on lists of up to MaxRows texts and the      *)
(* funding loader on the CSV files of the ingestion study.                 *)
(***************************************************************************)
NextSymbols ==
    \/ \E list \in SymbolLists : init_symbols(list)
    \/ \E file \in CsvFiles : load_synthetic_funding(file, 0)

SpecSymbols == InitLoad /\ [][NextSymbols]_vars

\* A symbol as the data model wants it: not empty, uppercase, trimmed.
C17_Normalised(sym) == sym # <<>> /\ upper(sym) = sym /\ strip(sym) = sym

(***************************************************************************)
(* C17: every symbol that init_symbols or a loader has written is a        *)
(* non-empty text, uppercase, without leading or trailing whitespace.      *)
(* Stated as the claim makes it; it fails when init_symbols is given a     *)
(* text of whitespace, which it stores as the empty text.                  *)
(***************************************************************************)
C17_SymbolsNormalised ==
    /\ \A sym \in symbols : C17_Normalised(sym)
    /\ \A f \in funding : C17_Normalised(f.symbol)

\* The same on the rows of the loader alone.
C17_LoaderNormalised == \A f \in funding : C17_Normalised(f.symbol)

(***************************************************************************)
(* C18: events of equal rate within a day are ranked in one fixed order,   *)
(* so every computation of the deciles over the same facts gives every     *)
(* event the same bucket: the facts of a request admit one decile          *)
(* assignment.  Stated as the claim makes it; ORDER BY rate leaves the     *)
(* order of equal rates to the database, and it fails when two events of   *)
(* equal rate lie across the boundary of two buckets.                      *)
(***************************************************************************)
C18_OneAssignment ==
    resp.op \in {"app_get_funding_deciles", "get_funding_deciles_slow"}
        => Cardinality(C9_Assignments) = 1

(***************************************************************************)
(* Refresh of the derived views.  The refresh job is not among the source  *)
(* files: it follows the specification, which has one refresh in flight at *)
(* a time, computing every view from the facts of one instant and          *)
(* publishing the set by the swap of one reference, or leaving the         *)
(* published set in place when it fails.  In this study mv holds the       *)
(* published views, mv_funding_deciles among them, and the set a refresh   *)
(* in flight has staged.                                                   *)
(***************************************************************************)
\* The contents a refresh may give mv_funding_deciles: the window of the slow
\* path over all funding rows.
mv_funding_deciles_defs == FundingWithDecile(funding)

NoRefresh == [in_flight |-> FALSE, views |-> {}]

\* The view sets a refresh may compute from the facts.
MaterializeViewSet ==
    {[event_car |-> m.event_car,
      event_markouts |-> m.event_markouts,
      event_volatility |-> m.event_volatility,
      symbol_daily_stats |-> m.symbol_daily_stats,
      daily_rate_stats |-> m.daily_rate_stats,
      rolling_oi_stats |-> m.rolling_oi_stats,
      funding_deciles |-> fd]
     : m \in MaterializeAll, fd \in mv_funding_deciles_defs}

\* A view set as the published one, with the staging area st beside it.
Published(v, st) ==
    [event_car |-> v.event_car,
     event_markouts |-> v.event_markouts,
     event_volatility |-> v.event_volatility,
     symbol_daily_stats |-> v.symbol_daily_stats,
     daily_rate_stats |-> v.daily_rate_stats,
     rolling_oi_stats |-> v.rolling_oi_stats,
     funding_deciles |-> v.funding_deciles,
     staged |-> st]

\* main.py /api/funding_deciles on the views deciles and markouts:
\* mv_funding_deciles fd JOIN mv_event_markouts em ON the symbol and
\* em.event_ts = fd.ts, WHERE fd.ts BETWEEN, GROUP BY and ORDER BY rate_decile.
FundingDecilesOver(deciles, markouts, start_ts, end_ts) ==
    GroupByDecile({[symbol |-> p[1].symbol, ts |-> p[1].ts,
                    rate_decile |-> p[1].rate_decile, markout_60m |-> p[2].markout_60m]
                   : p \in {x \in deciles \X markouts :
                               /\ x[2].symbol = x[1].symbol
                               /\ x[2].event_ts = x[1].ts
                               /\ Between(x[1].ts, start_ts, end_ts)}})

\* Mutant: the two views are read in two statements with a publish between
\* them, mv_event_markouts before it and mv_funding_deciles after it.
FastFundingDeciles_two_statements(start_ts, end_ts) ==
    FundingDecilesOver(IF mv.staged.in_flight THEN mv.staged.views.funding_deciles
                       ELSE mv.funding_deciles,
                       mv.event_markouts, start_ts, end_ts)

\* The statement reads both views of the published set.
FastFundingDeciles(start_ts, end_ts) ==
    FundingDecilesOver(mv.funding_deciles, mv.event_markouts, start_ts, end_ts)

get_funding_deciles(start_ts, end_ts) ==
    /\ resp' = [op |-> "get_funding_deciles", start_ts |-> start_ts,
                end_ts |-> end_ts, rows |-> FastFundingDeciles(start_ts, end_ts)]
    /\ UNCHANGED <<facts, mv>>

\* Ingestion appends a funding row: INSERT ... ON CONFLICT DO NOTHING.
insert_funding(row) ==
    /\ funding' = InsertDoNothing(funding, <<row>>)
    /\ UNCHANGED <<symbols, minute_returns, open_interest, klines, mv, resp>>

\* A refresh starts when none is in flight and stages the views of the facts.
refresh_begin ==
    /\ ~mv.staged.in_flight
    /\ \E v \in MaterializeViewSet :
          mv' = [mv EXCEPT !.staged = [in_flight |-> TRUE, views |-> v]]
    /\ UNCHANGED <<facts, resp>>

\* The refresh publishes the staged set by one swap.
refresh_publish ==
    /\ mv.staged.in_flight
    /\ mv' = Published(mv.staged.views, NoRefresh)
    /\ UNCHANGED <<facts, resp>>

\* The refresh fails: the published views stay.
refresh_fail ==
    /\ mv.staged.in_flight
    /\ mv' = [mv EXCEPT !.staged = NoRefresh]
    /\ UNCHANGED <<facts, resp>>

(***************************************************************************)
(* Refresh study: funding events of one day arrive one by one between      *)
(* refreshes, each with a minute return in its markout window.             *)
(***************************************************************************)
RefreshFundingRows ==
    {[symbol |-> "A", ts |-> 100, rate |-> 1], [symbol |-> "A", ts |-> 200, rate |-> 2],
     [symbol |-> "B", ts |-> 100, rate |-> 3]}

RefreshReturnRows ==
    {[symbol |-> "A", ts |-> 101, r1m |-> 1], [symbol |-> "A", ts |-> 201, r1m |-> 2],
     [symbol |-> "B", ts |-> 101, r1m |-> -1]}

RefreshReqTimes == {100, 200}

InitRefresh ==
    /\ symbols = Symbols
    /\ funding = {}
    /\ minute_returns = RefreshReturnRows
    /\ open_interest = {}
    /\ klines = {}
    /\ mv \in {Published(v, NoRefresh) : v \in MaterializeViewSet}
    /\ resp = NoResponse

NextRefresh ==
    \/ \E row \in RefreshFundingRows : insert_funding(row)
    \/ refresh_begin
    \/ refresh_publish
    \/ refresh_fail
    \/ \E t0 \in RefreshReqTimes, t1 \in RefreshReqTimes : get_funding_deciles(t0, t1)

SpecRefresh == InitRefresh /\ [][NextRefresh]_vars

\* The rows the last request would get from the set a refresh has staged.
C19_PostRefreshRows ==
    FundingDecilesOver(mv.staged.views.funding_deciles, mv.staged.views.event_markouts,
                       resp'.start_ts, resp'.end_ts)

\* The rows the last request would get from the published set.
C19_PreRefreshRows ==
    FundingDecilesOver(mv.funding_deciles, mv.event_markouts, resp'.start_ts, resp'.end_ts)

MaxEvents == 12

NtileDayZeroRows(n) == {[symbol |-> "A", ts |-> 100 * i, rate |-> (3 * i) % 11] : i \in 1 .. n}

NtileDayOneRows ==
    {[symbol |-> "B", ts |-> DayMinutes + 100 * i, rate |-> 5] : i \in 1 .. 2}

NtileReturnRows ==
    {[symbol |-> "A", ts |-> 99, r1m |-> 1], [symbol |-> "A", ts |-> 100, r1m |-> 1],
     [symbol |-> "A", ts |-> 199, r1m |-> 1], [symbol |-> "A", ts |-> 200, r1m |-> 3],
     [symbol |-> "A", ts |-> 300, r1m |-> 1], [symbol |-> "A", ts |-> 400, r1m |-> 1]}

NtileEnds == {650, DayMinutes - 1, 2 * DayMinutes - 1}

EmptyViews ==
    [event_car |-> {}, event_markouts |-> {}, event_volatility |-> {},
     symbol_daily_stats |-> {}, daily_rate_stats |-> {}, rolling_oi_stats |-> {}]

\* The CTE funding_with_decile of QUERY_2, evaluated on its own.
funding_with_decile(start_ts, end_ts) ==
    /\ \E a \in Q2_funding_with_decile(start_ts, end_ts) :
          resp' = [op |-> "funding_with_decile", start_ts |-> start_ts,
                   end_ts |-> end_ts, rows |-> a]
    /\ UNCHANGED <<facts, mv>>

\* The CTE event_vol_regimes of QUERY_6, evaluated on its own.
event_vol_regimes(start_ts, end_ts) ==
    /\ \E s \in RvOrders({[rv |-> r.rv_1h, row |-> r] : r \in Q6_event_vol(start_ts, end_ts)}) :
          resp' = [op |-> "event_vol_regimes", start_ts |-> start_ts,
                   end_ts |-> end_ts, rows |-> Q6_event_vol_regimes(s)]
    /\ UNCHANGED <<facts, mv>>

InitNtile ==
    /\ symbols = Symbols
    /\ funding \in {NtileDayZeroRows(n) \cup t : n \in 0 .. MaxEvents, t \in SUBSET NtileDayOneRows}
    /\ minute_returns = NtileReturnRows
    /\ open_interest = {}
    /\ klines = {}
    /\ mv = EmptyViews
    /\ resp = NoResponse

NextNtile ==
    \/ \E t1 \in NtileEnds : funding_with_decile(0, t1)
    \/ \E t1 \in NtileEnds : event_vol_regimes(0, t1)

SpecNtile == InitNtile /\ [][NextNtile]_vars

\* The number of rows of the assignment in bucket b.
C20_Size(buckets, b) == Cardinality({r \in buckets : r.bucket = b})

\* The rows [id, bucket] give each of the n events of ids one bucket of 1 .. k,
\* no bucket is larger than an earlier one or smaller by more than one, and the
\* sizes sum to n.
C20_Balanced(buckets, ids, k) ==
    /\ \A id \in ids : Cardinality({r \in buckets : r.id = id}) = 1
    /\ \A r \in buckets : r.id \in ids /\ r.bucket \in 1 .. k
    /\ \A b, c \in 1 .. k :
          b < c => /\ C20_Size(buckets, b) >= C20_Size(buckets, c)
                   /\ C20_Size(buckets, b) - C20_Size(buckets, c) <= 1
    /\ Cardinality(buckets) = Cardinality(ids)

\* The deciles of the events of day d in the range of the request.
C20_DecilesOfDay(d) ==
    LET part == {r \in resp.rows : DATE(r.ts) = d}
    IN /\ C20_Balanced({[id |-> <<r.symbol, r.ts>>, bucket |-> r.rate_decile] : r \in part},
                       {<<f.symbol, f.ts>> :
                           f \in {g \in funding : /\ Between(g.ts, resp.start_ts, resp.end_ts)
                                                  /\ DATE(g.ts) = d}},
                       Deciles)
       /\ \A r1, r2 \in part : r1.rate < r2.rate => r1.rate_decile <= r2.rate_decile

\* The tertiles of the events of the range that have a return in their hour.
C20_Tertiles ==
    /\ C20_Balanced({[id |-> <<r.symbol, r.ts>>, bucket |-> r.vol_regime] : r \in resp.rows},
                    {<<e.symbol, e.ts>> : e \in Q6_event_vol(resp.start_ts, resp.end_ts)},
                    Tertiles)
    /\ \A r1, r2 \in resp.rows :
          ~RvOrdered(r2.rv_1h, r1.rv_1h) => r1.vol_regime <= r2.vol_regime

(***************************************************************************)
(* C20: NTILE(10) over the events of a day ordered by rate, and NTILE(3)   *)
(* over the events ordered by rv_1h, put every event in exactly one bucket *)
(* of 1 .. k, with bucket sizes that differ by at most 1, the larger       *)
(* buckets first, that sum to the number of events, and with bucket        *)
(* numbers that do not decrease as the ordering key grows.                 *)
(***************************************************************************)
C20_NtileBuckets ==
    /\ resp.op = "funding_with_decile" => \A d \in 0 .. 1 : C20_DecilesOfDay(d)
    /\ resp.op = "event_vol_regimes" => C20_Tertiles

\* The deciles of a day of MaxEvents events in the range, two of them of equal
\* rate: the first buckets hold two events, the last one.
C20_Witness ==
    /\ resp.op = "funding_with_decile"
    /\ Cardinality({r \in resp.rows : DATE(r.ts) = 0}) = MaxEvents
    /\ \E r1, r2 \in resp.rows : r1 # r2 /\ DATE(r1.ts) = 0 /\ r1.rate = r2.rate
    /\ Cardinality({r \in resp.rows : DATE(r.ts) = 0 /\ r.rate_decile = 1}) = 2
    /\ Cardinality({r \in resp.rows : DATE(r.ts) = 0 /\ r.rate_decile = Deciles}) = 1

(***************************************************************************)
(* C21: two executions of extremeRegimes with the same parameters over the *)
(* same facts return the same rows in the same order, also when symbols    *)
(* tie on avg_markout_60m at the top_k cutoff: the facts and parameters of *)
(* a request admit one result.  Stated as the claim makes it; ORDER BY     *)
(* avg_markout_60m DESC leaves the order of equal averages to the          *)
(* database, and with LIMIT 1 either of two tied symbols is returned.      *)
(***************************************************************************)
C21_OneResult ==
    /\ resp.op = "app_get_extreme_regimes"
          => Cardinality(QUERY_3(resp.start_ts, resp.end_ts,
                                 resp.min_events, resp.top_k)) = 1
    /\ resp.op = "get_extreme_regimes"
          => Cardinality(FastExtremeRegimes(resp.start_ts, resp.end_ts,
                                            resp.min_events, resp.top_k)) = 1

(***************************************************************************)
(* C22: for every range, QUERY_2 of app.py, which filters the funding      *)
(* events to the range before NTILE(10), and the slow path of main.py,     *)
(* which ranks all events and filters afterwards, may return the same      *)
(* rows.  Stated as the claim makes it; it fails when the range cuts       *)
(* through a calendar day, whose partition then holds fewer rows in        *)
(* QUERY_2.                                                                *)
(***************************************************************************)
C22_FilterOrderAgrees ==
    resp.op \in {"app_get_funding_deciles", "get_funding_deciles_slow"}
        => QUERY_2(resp.start_ts, resp.end_ts) = SlowFundingDeciles(resp.start_ts, resp.end_ts)

(***************************************************************************)
(* The generator of the synthetic CSVs (python/generate_synthetic_data.py).*)
(* Times are minutes since START, values whole numbers.  A random draw is  *)
(* a choice: the walk of a symbol's open interest falls by half, stays or  *)
(* doubles at every step, as drawn once per symbol, and the boost at a     *)
(* funding time is one of the two ends of its range, in hundredths.  The   *)
(* response holds the generator's lists and its position in the loops.     *)
(***************************************************************************)
SYMBOLS == <<"BTCUSDT", "ETHUSDT">>

FUNDING_INTERVAL_HOURS == 8

OI_INTERVAL_MINUTES == 5

\* The range of the generated data: START at minute 0, END one minute before
\* a funding time.
GenStart == 0

GenEnd == 2 * FUNDING_INTERVAL_HOURS * HourMinutes - 1

\* drange(start, end, delta): start, start + delta, ... up to end inclusive.
drange(start, end, delta) ==
    [i \in 1 .. (IF start <= end THEN (end - start) \div delta + 1 ELSE 0)
        |-> start + (i - 1) * delta]

base_levels(sym) == IF sym = "BTCUSDT" THEN 100000 ELSE IF sym = "ETHUSDT" THEN 60000 ELSE 50000

\* Mutant: the level is kept below its maximum only.
ClampLevel_upper_only(level) == MIN({level, 2000000})

\* level = max(1_000.0, min(level, 2_000_000.0)).
ClampLevel(level) == MAX({1000, MIN({level, 2000000})})

\* random.gauss(0.0, level * 0.0005) as drawn for the walk.
GaussDraw(level, drift) ==
    IF drift = "down" THEN -((level + 1) \div 2) ELSE IF drift = "up" THEN level ELSE 0

Drifts == {"down", "flat", "up"}

\* random.uniform(1.05, 1.20), in hundredths.
BoostPercents == {105, 120}

\* generate_funding_rows: one row per symbol and funding time; the rates are
\* drawn around a bias per symbol, here the bias itself.
generate_funding_rows(bias) ==
    LET times == drange(GenStart, GenEnd, FUNDING_INTERVAL_HOURS * HourMinutes)
        n == Len(times)
    IN [i \in 1 .. Len(SYMBOLS) * n |->
           [symbol |-> SYMBOLS[((i - 1) \div n) + 1],
            ts |-> times[((i - 1) % n) + 1],
            rate |-> bias[((i - 1) \div n) + 1]]]

\* main() calls generate_funding_rows and enters generate_open_interest_rows.
gen_funding(bias, drift) ==
    /\ resp.op = "none"
    /\ resp' = [op |-> "generate", pc |-> "walk",
                funding_rows |-> generate_funding_rows(bias), oi_rows |-> <<>>,
                sym |-> 1, ts |-> GenStart, level |-> base_levels(SYMBOLS[1]),
                drift |-> drift]
    /\ UNCHANGED <<facts, mv>>

\* One pass of the inner loop of generate_open_interest_rows: the walk moves,
\* the level is clamped, the row is appended; after the last time of a symbol
\* the loop goes on with the next symbol, after the last symbol with the boost.
gen_oi_step ==
    /\ resp.op = "generate"
    /\ resp.pc = "walk"
    /\ LET level == ClampLevel(resp.level + GaussDraw(resp.level, resp.drift[resp.sym]))
           rows == Append(resp.oi_rows,
                          [symbol |-> SYMBOLS[resp.sym], ts |-> resp.ts, oi |-> level])
           next_ts == resp.ts + OI_INTERVAL_MINUTES
       IN resp' =
             IF next_ts <= GenEnd
             THEN [resp EXCEPT !.oi_rows = rows, !.ts = next_ts, !.level = level]
             ELSE IF resp.sym < Len(SYMBOLS)
             THEN [resp EXCEPT !.oi_rows = rows, !.ts = GenStart, !.sym = @ + 1,
                               !.level = base_levels(SYMBOLS[resp.sym + 1])]
             ELSE [resp EXCEPT !.oi_rows = rows, !.pc = "boost"]
    /\ UNCHANGED <<facts, mv>>

\* funding_ts_by_symbol.
funding_ts_by_symbol(funding_rows, sym) ==
    {funding_rows[i].ts : i \in {j \in DOMAIN funding_rows : funding_rows[j].symbol = sym}}

\* The second loop of generate_open_interest_rows: the rows at a funding time
\* of their symbol are multiplied by the drawn factor.
gen_boost(percent) ==
    /\ resp.op = "generate"
    /\ resp.pc = "boost"
    /\ resp' = [resp EXCEPT
                   !.pc = "done",
                   !.oi_rows =
                       [i \in DOMAIN resp.oi_rows |->
                           IF resp.oi_rows[i].ts
                                 \in funding_ts_by_symbol(resp.funding_rows,
                                                          resp.oi_rows[i].symbol)
                           THEN [resp.oi_rows[i] EXCEPT
                                    !.oi = (@ * percent[resp.oi_rows[i].symbol]) \div 100]
                           ELSE resp.oi_rows[i]]]
    /\ UNCHANGED <<facts, mv>>

InitGen ==
    /\ symbols = {}
    /\ funding = {}
    /\ minute_returns = {}
    /\ open_interest = {}
    /\ klines = {}
    /\ mv = EmptyViews
    /\ resp = NoResponse

NextGen ==
    \/ \E bias \in [1 .. Len(SYMBOLS) -> {-1, 1}], drift \in [1 .. Len(SYMBOLS) -> Drifts] :
          gen_funding(bias, drift)
    \/ gen_oi_step
    \/ \E percent \in [{SYMBOLS[i] : i \in DOMAIN SYMBOLS} -> BoostPercents] : gen_boost(percent)

SpecGen == InitGen /\ [][NextGen]_vars

(***************************************************************************)
(* C23: in the generated data every funding row has exactly one            *)
(* open-interest row of its symbol and timestamp, and every open-interest  *)
(* value lies between 1,000 and 2,400,000.                                 *)
(***************************************************************************)
C23_OiAtFundingTimes ==
    (resp.op = "generate" /\ resp.pc = "done")
        => /\ \A i \in DOMAIN resp.funding_rows :
                 Cardinality({j \in DOMAIN resp.oi_rows :
                                 /\ resp.oi_rows[j].symbol = resp.funding_rows[i].symbol
                                 /\ resp.oi_rows[j].ts = resp.funding_rows[i].ts}) = 1
           /\ \A j \in DOMAIN resp.oi_rows :
                 resp.oi_rows[j].oi >= 1000 /\ resp.oi_rows[j].oi <= 2400000

\* A finished run with two funding times per symbol in which one walk fell to
\* the lower clamp and the other rose to the upper clamp and was boosted by
\* the largest factor.
C23_Witness ==
    /\ resp.op = "generate"
    /\ resp.pc = "done"
    /\ Len(resp.funding_rows) = 2 * Len(SYMBOLS)
    /\ \E j \in DOMAIN resp.oi_rows : resp.oi_rows[j].oi = 1000
    /\ \E j \in DOMAIN resp.oi_rows : resp.oi_rows[j].oi = 2400000

\* ---------------------------------------------------------------------
\* Google login (auth.py, main.py auth_google)
\* ---------------------------------------------------------------------

\* auth.py:15; the lifetime of an access token, in minutes.
ACCESS_TOKEN_EXPIRE_MINUTES == 60 * 24 * 7

SECRET_KEY == "jwt-secret"

\* The values os.getenv("GOOGLE_CLIENT_ID", "") can have at start-up: the
\* variable unset (the default, the empty string) or set to the client id.
OurClientId == "our-app"
GoogleClientIds == {"", OurClientId}

\* What Google's tokeninfo service says about a presented ID token: an HTTP
\* status and, with 200, the token's claims; or no answer at all.
Audiences == {OurClientId, "other-app"}
Subjects == {"u1", "u2"}
Emails == {"a@x", "null"}
Names == {"Ann", "null"}
TokenInfoAnswers ==
    {[status_code |-> 200, aud |-> a, sub |-> s, email |-> e, name |-> n] :
        a \in Audiences, s \in Subjects, e \in Emails, n \in Names}
    \cup {[status_code |-> c, aud |-> "null", sub |-> "null", email |-> "null",
           name |-> "null"] : c \in {400, 0}}

AuthNow == 0 .. 3

\* auth.py:63: if GOOGLE_CLIENT_ID and data.get("aud") != GOOGLE_CLIENT_ID.
AudienceRejected(client_id, data) == client_id # "" /\ data.aud # client_id

\* None, as verify_google_token returns it, and the absence of a token.
NoUser == [provider |-> "none"]
NoToken == [key |-> "none"]

\* auth.py:53-77: the user info, or None. status_code 0 stands for the
\* request raising, which the except clause turns into None.
verify_google_token(client_id, answer) ==
    IF answer.status_code = 0 THEN NoUser
    ELSE IF answer.status_code = 200
         THEN IF AudienceRejected(client_id, answer) THEN NoUser
              ELSE [id |-> answer.sub, email |-> answer.email, name |-> answer.name,
                    provider |-> "google"]
         ELSE NoUser

\* auth.py:26-36: the claims that are signed, with their expiry.
create_access_token(data, now) ==
    [claims |-> data, exp |-> now + ACCESS_TOKEN_EXPIRE_MINUTES, key |-> SECRET_KEY]

\* main.py:127-148.
auth_google(answer, now) ==
    LET user_info == verify_google_token(resp.GOOGLE_CLIENT_ID, answer) IN
    /\ resp' = IF user_info = NoUser
               THEN [op |-> "auth_google", GOOGLE_CLIENT_ID |-> resp.GOOGLE_CLIENT_ID,
                     answer |-> answer, status_code |-> 401,
                     access_token |-> NoToken, user |-> NoUser]
               ELSE [op |-> "auth_google", GOOGLE_CLIENT_ID |-> resp.GOOGLE_CLIENT_ID,
                     answer |-> answer, status_code |-> 200,
                     access_token |-> create_access_token(
                         [sub |-> user_info.email, id |-> user_info.id,
                          email |-> user_info.email, name |-> user_info.name,
                          provider |-> user_info.provider], now),
                     user |-> user_info]
    /\ UNCHANGED <<facts, mv>>

InitAuth ==
    /\ symbols = {} /\ funding = {} /\ minute_returns = {}
    /\ open_interest = {} /\ klines = {}
    /\ mv = EmptyViews
    /\ \E c \in GoogleClientIds : resp = [op |-> "start", GOOGLE_CLIENT_ID |-> c]

NextAuth == \E answer \in TokenInfoAnswers, now \in AuthNow : auth_google(answer, now)

SpecAuth == InitAuth /\ [][NextAuth]_vars

\* C24: the Google login endpoint issues an access token only for an ID token
\* that Google accepts and whose audience is the application's client id; a
\* token issued for another application is answered 401 without an access
\* token, whether or not GOOGLE_CLIENT_ID is configured.
C24_AudienceChecked ==
    resp.op = "auth_google"
        => /\ resp.access_token # NoToken
                => resp.answer.status_code = 200 /\ resp.answer.aud = OurClientId
           /\ (resp.answer.status_code = 200 /\ resp.answer.aud # OurClientId)
                => resp.status_code = 401 /\ resp.access_token = NoToken

(***************************************************************************)
(* Extreme-regime range study: a request whose range starts in the middle  *)
(* of a calendar day, fifteen days into the history, so that funding       *)
(* events of the day and open-interest rows of the trailing 14 days lie on *)
(* both sides of the bounds.                                               *)
(***************************************************************************)
RangeDay == (OiWindowDays + 1) * DayMinutes

\* Symbol A has three events on the day, B a single one of either sign.
RangeFundingRows(b_rate) ==
    {[symbol |-> "A", ts |-> RangeDay + 10, rate |-> 5],
     [symbol |-> "A", ts |-> RangeDay + 20, rate |-> 1],
     [symbol |-> "A", ts |-> RangeDay + 30, rate |-> -3],
     [symbol |-> "B", ts |-> RangeDay + 20, rate |-> b_rate]}

RangeBRates == {2, -7}

\* Snapshots at the event timestamps, always present.
RangeOiBase ==
    {[symbol |-> "A", ts |-> RangeDay + 10, oi |-> 5],
     [symbol |-> "A", ts |-> RangeDay + 20, oi |-> 7],
     [symbol |-> "A", ts |-> RangeDay + 30, oi |-> 8],
     [symbol |-> "B", ts |-> RangeDay + 20, oi |-> 5]}

\* Older snapshots: before every window, between the windows' starts, and
\* inside every window.
RangeOiRows ==
    {[symbol |-> "A", ts |-> 100, oi |-> 90],
     [symbol |-> "A", ts |-> DayMinutes + 18, oi |-> 80],
     [symbol |-> "A", ts |-> DayMinutes + 20, oi |-> 1],
     [symbol |-> "B", ts |-> RangeDay + 5, oi |-> 1]}

RangeReturnBase == {[symbol |-> "A", ts |-> RangeDay + 11, r1m |-> 1]}

RangeReturnRows ==
    {[symbol |-> "A", ts |-> RangeDay + 21, r1m |-> 2],
     [symbol |-> "A", ts |-> RangeDay + 31, r1m |-> 1],
     [symbol |-> "B", ts |-> RangeDay + 21, r1m |-> 1]}

RangeStarts == {0, RangeDay + 15}
RangeEnds == {RangeDay + 25, RangeDay + DayMinutes - 1}
RangeMinEvents == {1, 2}
RangeTopK == {1, 2}

InitRange ==
    /\ symbols = Symbols
    /\ \E b \in RangeBRates : funding = RangeFundingRows(b)
    /\ minute_returns \in {RangeReturnBase \cup t : t \in SUBSET RangeReturnRows}
    /\ open_interest \in {RangeOiBase \cup t : t \in SUBSET RangeOiRows}
    /\ klines = {}
    /\ mv \in MaterializeAll
    /\ resp = NoResponse

NextRange ==
    \/ \E t0 \in RangeStarts, t1 \in RangeEnds, m \in RangeMinEvents, k \in RangeTopK :
          app_get_extreme_regimes(t0, t1, m, k)
    \/ \E t0 \in RangeStarts, t1 \in RangeEnds, m \in RangeMinEvents, k \in RangeTopK :
          get_extreme_regimes(t0, t1, m, k)
    \/ refreshAll

SpecRange == InitRange /\ [][NextRange]_vars

\* The events of a symbol that QUERY_3 counts and that lie in the requested
\* range.
C25_CountedInRange(sym) ==
    {e \in Q3_event_markouts(resp.start_ts, resp.end_ts) :
        e.symbol = sym /\ Between(e.ts, resp.start_ts, resp.end_ts)}

C28_DayMinimal ==
    {f \in funding :
        \A g \in funding :
            (g.symbol = f.symbol /\ DATE(g.ts) = DATE(f.ts)) => ABS(f.rate) <= ABS(g.rate)}

\* The regime events of the answered request, in QUERY_3 or in the fast path.
C28_RegimeEvents ==
    IF resp.op = "app_get_extreme_regimes"
    THEN Q3_regime_events(resp.start_ts, resp.end_ts)
    ELSE Fast3_regime_events(resp.start_ts, resp.end_ts)

\* C28: the funding event with the smallest |rate| of its symbol-day, and so
\* the only event of a symbol-day, is never a regime event of extremeRegimes,
\* whatever its open interest: no returned row counts more events than its
\* symbol has events above the smallest |rate| of their day, and a symbol
\* without such events is absent.
C28_SmallestNeverCounted ==
    resp.op \in {"app_get_extreme_regimes", "get_extreme_regimes"}
        => /\ C28_RegimeEvents \cap C28_DayMinimal = {}
           /\ \A i \in DOMAIN resp.rows :
                  resp.rows[i].n_events
                      <= Cardinality({f \in funding \ C28_DayMinimal :
                                         f.symbol = resp.rows[i].symbol})

\* A request is answered with a row while the only event of B's day has a
\* snapshot above its trailing percentile and a return after it.
C28_Witness ==
    /\ resp.op \in {"app_get_extreme_regimes", "get_extreme_regimes"}
    /\ resp.start_ts = 0 /\ resp.end_ts = RangeDay + DayMinutes - 1
    /\ Len(resp.rows) >= 1
    /\ \E f \in C28_DayMinimal :
          /\ f.symbol = "B"
          /\ \E o \in RollingOiStats(open_interest) :
                o.symbol = "B" /\ o.ts = f.ts /\ ExceedsP90(o.oi, o.p90_oi_14d)
          /\ \E mr \in minute_returns : mr.symbol = "B" /\ mr.ts = f.ts + 1

\* PERCENTILE_CONT(0.9) of oi over the snapshots of the symbol in the whole
\* history with ts in [ts - 14 days, ts].
C30_FullHistoryP90(sym, ts) ==
    PERCENTILE_CONT_90({[k |-> p.oi, row |-> [ts |-> p.ts, v |-> p.oi]]
                        : p \in {q \in open_interest :
                                    /\ q.symbol = sym
                                    /\ Between(q.ts, ts - OiWindowDays * DayMinutes, ts)}})

NextNullRank ==
    \/ \E t0 \in VolReqTimes, t1 \in VolReqTimes : app_get_vol_regimes(t0, t1)
    \/ \E t0 \in VolReqTimes, t1 \in VolReqTimes : get_vol_regime_markouts_slow(t0, t1)
    \/ refreshAll

SpecNullRank == InitRv /\ [][NextNullRank]_vars

C26_Served == resp.op \in {"app_get_vol_regimes", "get_vol_regime_markouts_slow"}

\* The funding events of the range whose trailing hour holds exactly one
\* minute return.
C26_OneSample ==
    {f \in funding : /\ Between(f.ts, resp.start_ts, resp.end_ts)
                     /\ Cardinality(Q6_window(f)) = 1}

\* The orders in which the answered query may rank its events by rv_1h.
C26_Orders ==
    IF resp.op = "app_get_vol_regimes"
    THEN RvOrders({[rv |-> r.rv_1h, row |-> r]
                   : r \in Q6_event_vol(resp.start_ts, resp.end_ts)})
    ELSE RvOrders({[rv |-> r.rv_1h, row |-> r]
                   : r \in Slow6_all_event_vol(resp.start_ts, resp.end_ts)})

C26_Regimes(s) ==
    IF resp.op = "app_get_vol_regimes" THEN Q6_event_vol_regimes(s)
    ELSE Slow6_event_vol_regimes(s)

C26_Rows == {resp.rows[i] : i \in DOMAIN resp.rows}

\* Under the order s every one-sample event is ranked, with a NULL rv_1h, in a
\* regime of 1..3 and after every event whose rv_1h is defined.
C26_RankedLast(s) ==
    \A f \in C26_OneSample :
        \E i \in DOMAIN s :
            /\ s[i].row.symbol = f.symbol /\ s[i].row.ts = f.ts
            /\ s[i].rv.null
            /\ \E e \in C26_Regimes(s) :
                  /\ e.symbol = f.symbol /\ e.ts = f.ts
                  /\ e.vol_regime = NTILE(i, Len(s), Tertiles)
                  /\ e.vol_regime \in 1 .. Tertiles
            /\ \A j \in DOMAIN s :
                  ~s[j].rv.null
                      => j < i /\ NTILE(j, Len(s), Tertiles) <= NTILE(i, Len(s), Tertiles)

\* The events of the range that have a markout and land in regime g under s.
C26_RegimeEvents(s, g) ==
    {[symbol |-> h.symbol, ts |-> h.ts,
      markout_60m |-> SUM_r1m(Q6_joined(h), h.ts + 1, h.ts + MarkoutMinutes)]
     : h \in {x \in funding :
                 /\ Between(x.ts, resp.start_ts, resp.end_ts)
                 /\ Q6_joined(x) # {}
                 /\ \E e \in C26_Regimes(s) :
                       e.symbol = x.symbol /\ e.ts = x.ts /\ e.vol_regime = g}}

\* Event f is one of the events behind the returned row of its regime under s.
C26_CountedIn(s, f) ==
    \E e \in C26_Regimes(s), r \in C26_Rows :
        /\ e.symbol = f.symbol /\ e.ts = f.ts
        /\ r.vol_regime = e.vol_regime
        /\ \E x \in C26_RegimeEvents(s, e.vol_regime) : x.symbol = f.symbol /\ x.ts = f.ts
        /\ r.n_events = Cardinality(C26_RegimeEvents(s, e.vol_regime))
        /\ r.avg_markout_60m = AVG_markout_60m(C26_RegimeEvents(s, e.vol_regime))

\* C26 as stated: in volRegimeMarkouts an event whose trailing hour holds
\* exactly one minute return has a NULL rv_1h, is given a vol_regime by
\* NTILE(3) after every event with a defined rv_1h, and is counted in the
\* n_events and avg_markout_60m of the regime it lands in.
C26_NullRankedAndCounted ==
    C26_Served
        => /\ \A s \in C26_Orders : C26_RankedLast(s)
           /\ \E s \in C26_Orders : \A f \in C26_OneSample : C26_CountedIn(s, f)

\* C26, amended: the event is ranked as stated, and it is counted in the
\* n_events and avg_markout_60m of its regime when it has a minute return in
\* the 60 minutes after it.
C26_NullRankedCountedWithMarkout ==
    C26_Served
        => /\ \A s \in C26_Orders : C26_RankedLast(s)
           /\ \E s \in C26_Orders :
                 \A f \in C26_OneSample : Q6_joined(f) # {} => C26_CountedIn(s, f)

\* A one-sample event with a markout was served next to an event with a
\* defined rv_1h, and two regimes were returned.
C26_Witness ==
    /\ C26_Served
    /\ \E f \in C26_OneSample : Q6_joined(f) # {}
    /\ \E s \in C26_Orders : \E j \in DOMAIN s : ~s[j].rv.null
    /\ Len(resp.rows) = 2

(***************************************************************************)
(* app.py QUERY_10 and main.py /api/positive_moves.                        *)
(***************************************************************************)
PositiveMoveMinutes == 30

\* Mutant: a markout equal to the threshold counts too.
ExceedsThreshold_or_equal(v, threshold) == v >= threshold

\* WHERE car_30m > %s, and AND markout_60m > %s of the fast path.
ExceedsThreshold(v, threshold) == v > threshold

Q10_joined(f) ==
    {mr \in minute_returns :
        mr.symbol = f.symbol /\ mr.ts > f.ts /\ mr.ts <= f.ts + PositiveMoveMinutes}

\* event_car: one row per funding event of the range that has a minute return
\* in the 30 minutes after it.
Q10_event_car(start, end) ==
    {[symbol |-> f.symbol, ts |-> f.ts,
      car_30m |-> SUM_r1m(Q10_joined(f), f.ts + 1, f.ts + PositiveMoveMinutes)]
     : f \in {g \in funding : Between(g.ts, start, end) /\ Q10_joined(g) # {}}}

\* ORDER BY n_positive_moves DESC: every order the database may return, rows of
\* equal count in either order.
OrderByCountDesc(groups) ==
    {s \in Perms(groups) :
        \A i, j \in DOMAIN s : i < j => s[i].n_positive_moves >= s[j].n_positive_moves}

QUERY_10(start, end, car_threshold) ==
    LET kept == {e \in Q10_event_car(start, end) : ExceedsThreshold(e.car_30m, car_threshold)}
    IN OrderByCountDesc({[symbol |-> sym,
                          n_positive_moves |-> Cardinality({e \in kept : e.symbol = sym})]
                         : sym \in {e.symbol : e \in kept}})

FastPositiveMoves(start_ts, end_ts, threshold) ==
    LET kept == {e \in mv.event_markouts :
                    /\ Between(e.event_ts, start_ts, end_ts)
                    /\ ExceedsThreshold(e.markout_60m, threshold)}
    IN OrderByCountDesc({[symbol |-> sym,
                          n_positive_moves |-> Cardinality({e \in kept : e.symbol = sym})]
                         : sym \in {e.symbol : e \in kept}})

app_get_positive_moves(start_ts, end_ts, car_threshold) ==
    /\ \E rows \in QUERY_10(start_ts, end_ts, car_threshold) :
          resp' = [op |-> "app_get_positive_moves", start_ts |-> start_ts,
                   end_ts |-> end_ts, threshold |-> car_threshold, rows |-> rows]
    /\ UNCHANGED <<facts, mv>>

get_positive_moves(start_ts, end_ts, threshold) ==
    /\ \E rows \in FastPositiveMoves(start_ts, end_ts, threshold) :
          resp' = [op |-> "get_positive_moves", start_ts |-> start_ts,
                   end_ts |-> end_ts, threshold |-> threshold, rows |-> rows]
    /\ UNCHANGED <<facts, mv>>

(***************************************************************************)
(* Positive-move study: two events per symbol, returns inside the 30 and   *)
(* the 60 minutes after them, thresholds below, at and above the markouts. *)
(***************************************************************************)
MovesFundingRows ==
    {[symbol |-> sym, ts |-> t, rate |-> 1] : sym \in Symbols, t \in {10, 100}}

MovesReturnRows ==
    {[symbol |-> sym, ts |-> 11, r1m |-> v] : sym \in Symbols, v \in {-1, 1}}
    \cup {[symbol |-> "A", ts |-> 45, r1m |-> 1], [symbol |-> "A", ts |-> 101, r1m |-> 1],
          [symbol |-> "B", ts |-> 101, r1m |-> 2], [symbol |-> "B", ts |-> 140, r1m |-> 2]}

MovesStarts == {0, 50}
MovesEnds == {200}
MovesThresholds == {-1, 0, 1, 2}

InitMoves ==
    /\ symbols = Symbols
    /\ funding = MovesFundingRows
    /\ minute_returns \in {t \in SUBSET MovesReturnRows : KeysUnique(t)}
    /\ open_interest = {}
    /\ klines = {}
    /\ mv \in MaterializeAll
    /\ resp = NoResponse

NextMoves ==
    \/ \E t0 \in MovesStarts, t1 \in MovesEnds, thr \in MovesThresholds :
          app_get_positive_moves(t0, t1, thr)
    \/ \E t0 \in MovesStarts, t1 \in MovesEnds, thr \in MovesThresholds :
          get_positive_moves(t0, t1, thr)
    \/ refreshAll

SpecMoves == InitMoves /\ [][NextMoves]_vars

C29_Served(r) == r.op \in {"app_get_positive_moves", "get_positive_moves"}

\* The n_positive_moves response r reports for a symbol, 0 when it has no row.
C29_Count(r, sym) ==
    IF \E i \in DOMAIN r.rows : r.rows[i].symbol = sym
    THEN r.rows[CHOOSE i \in DOMAIN r.rows : r.rows[i].symbol = sym].n_positive_moves
    ELSE 0

\* The markout of funding event f as the path of response r defines it: the sum
\* of the returns of the 30 minutes after it in QUERY_10, of the 60 minutes
\* after it in the fast path.
C29_Window(r, f) ==
    {mr \in minute_returns :
        /\ mr.symbol = f.symbol
        /\ mr.ts > f.ts
        /\ mr.ts <= f.ts + (IF r.op = "app_get_positive_moves"
                            THEN PositiveMoveMinutes ELSE MarkoutMinutes)}

\* The events of a symbol in the range of r whose markout is strictly greater
\* than the threshold of r.
C29_Above(r, sym) ==
    {f \in funding :
        /\ f.symbol = sym
        /\ Between(f.ts, r.start_ts, r.end_ts)
        /\ C29_Window(r, f) # {}
        /\ SUM_r1m(C29_Window(r, f), f.ts + 1, f.ts + MarkoutMinutes) > r.threshold}

C29_Exact(r) ==
    /\ \A i, j \in DOMAIN r.rows : r.rows[i].symbol = r.rows[j].symbol => i = j
    /\ \A i \in DOMAIN r.rows : r.rows[i].n_positive_moves >= 1
    /\ \A sym \in Symbols : C29_Count(r, sym) = Cardinality(C29_Above(r, sym))
    /\ \A i, j \in DOMAIN r.rows :
          i < j => r.rows[i].n_positive_moves >= r.rows[j].n_positive_moves

\* C29: positiveMoveCounts counts per symbol exactly the events of the range
\* whose markout is strictly greater than the threshold: every row has
\* n_positive_moves >= 1, a symbol without such an event is absent, the rows
\* are in non-increasing order of n_positive_moves, and a request that follows
\* one of the same path and range with a threshold at least as high counts, for
\* every symbol, at most as many events.
C29_CountsAndMonotone ==
    [][C29_Served(resp')
          => /\ C29_Exact(resp')
             /\ (/\ C29_Served(resp)
                 /\ resp.op = resp'.op
                 /\ resp.start_ts = resp'.start_ts /\ resp.end_ts = resp'.end_ts
                 /\ resp.threshold <= resp'.threshold)
                    => \A sym \in Symbols : C29_Count(resp', sym) <= C29_Count(resp, sym)]_vars

\* Two rows of different counts were returned while an event of the range has
\* a markout equal to the threshold, which is not counted.
C29_Witness ==
    /\ C29_Served(resp)
    /\ Len(resp.rows) = 2
    /\ resp.rows[1].n_positive_moves > resp.rows[2].n_positive_moves
    /\ \E f \in funding :
          /\ Between(f.ts, resp.start_ts, resp.end_ts)
          /\ C29_Window(resp, f) # {}
          /\ SUM_r1m(C29_Window(resp, f), f.ts + 1, f.ts + MarkoutMinutes) = resp.threshold

(***************************************************************************)
(* Connection handling of run_query (app.py, main.py) and run_query_timed  *)
(* (main.py), a statement at a time.  The endpoints are synchronous, so    *)
(* the server runs them on worker threads and two calls may overlap.  In   *)
(* this study resp holds the calls of the workers, the set of open         *)
(* connections and the number of connections opened so far.                *)
(***************************************************************************)
Workers == {1, 2}
MaxConns == 3

RunQueryFunctions == {"app.run_query", "main.run_query", "main.run_query_timed"}

NoCall == [fn |-> "none", pc |-> "idle", conn |-> 0, outcome |-> "none", status_code |-> 0]

\* Mutant: the connection is closed after fetchall only.
CloseOnExit_after_rows(outcome) == outcome = "rows"

\* finally: conn.close() runs however the try block was left.
CloseOnExit(outcome) == TRUE

\* What leaves the call when cursor.execute raised psycopg2.Error: main.py
\* turns it into HTTPException(500), app.py lets it through.
QueryFailure(fn) == IF fn = "app.run_query" THEN "psycopg2.Error" ELSE "HTTPException"

call_run_query(w, fn) ==
    /\ resp.calls[w].pc \in {"idle", "returned", "raised"}
    /\ resp.opened < MaxConns
    /\ resp' = [resp EXCEPT !.calls[w] = [NoCall EXCEPT !.fn = fn, !.pc = "connect"]]
    /\ UNCHANGED <<facts, mv>>

\* get_connection / get_conn: psycopg2.connect returns a connection, or it
\* raises and the function raises HTTPException(500) in its place.
get_conn(w, connected) ==
    /\ resp.calls[w].pc = "connect"
    /\ resp' = IF connected
               THEN [resp EXCEPT !.calls[w].pc = "execute",
                                 !.calls[w].conn = resp.opened + 1,
                                 !.open = @ \cup {resp.opened + 1},
                                 !.opened = @ + 1]
               ELSE [resp EXCEPT !.calls[w].pc = "raised",
                                 !.calls[w].outcome = "HTTPException",
                                 !.calls[w].status_code = 500]
    /\ UNCHANGED <<facts, mv>>

\* The try block: cur.execute and cur.fetchall give the rows, or raise.
cursor_execute(w, ok) ==
    /\ resp.calls[w].pc = "execute"
    /\ resp' = [resp EXCEPT !.calls[w].pc = "finally",
                            !.calls[w].outcome =
                                IF ok THEN "rows" ELSE QueryFailure(resp.calls[w].fn)]
    /\ UNCHANGED <<facts, mv>>

\* The finally block, then the return or the raise.
conn_close(w) ==
    /\ resp.calls[w].pc = "finally"
    /\ resp' = [resp EXCEPT !.calls[w].pc =
                                IF resp.calls[w].outcome = "rows" THEN "returned" ELSE "raised",
                            !.calls[w].status_code =
                                IF resp.calls[w].outcome = "rows" THEN 200 ELSE 500,
                            !.open = IF CloseOnExit(resp.calls[w].outcome)
                                     THEN @ \ {resp.calls[w].conn} ELSE @]
    /\ UNCHANGED <<facts, mv>>

InitConn ==
    /\ symbols = {} /\ funding = {} /\ minute_returns = {}
    /\ open_interest = {} /\ klines = {}
    /\ mv = EmptyViews
    /\ resp = [op |-> "run_query", calls |-> [w \in Workers |-> NoCall],
               open |-> {}, opened |-> 0]

NextConn ==
    \/ \E w \in Workers, fn \in RunQueryFunctions : call_run_query(w, fn)
    \/ \E w \in Workers, connected \in BOOLEAN : get_conn(w, connected)
    \/ \E w \in Workers, ok \in BOOLEAN : cursor_execute(w, ok)
    \/ \E w \in Workers : conn_close(w)

SpecConn == InitConn /\ [][NextConn]_vars

\* C27: after any call of run_query or run_query_timed, whether it returned
\* rows or raised because the query failed, the connection the call opened is
\* closed; when opening the connection fails the call raises a 500 error and
\* has no connection; the open connections are those of the calls between
\* their connect and their finally block.
C27_ConnectionClosed ==
    /\ \A w \in Workers :
          resp.calls[w].pc \in {"returned", "raised"}
              => /\ resp.calls[w].conn \notin resp.open
                 /\ resp.calls[w].pc = "returned"
                        => resp.calls[w].conn # 0 /\ resp.calls[w].outcome = "rows"
                 /\ resp.calls[w].conn = 0
                        => /\ resp.calls[w].pc = "raised"
                           /\ resp.calls[w].status_code = 500
                           /\ resp.calls[w].outcome = "HTTPException"
    /\ resp.open = {resp.calls[w].conn
                    : w \in {x \in Workers : resp.calls[x].pc \in {"execute", "finally"}}}

\* One call raised after its query failed on an open connection, the other
\* raised because the connection could not be opened, and nothing is open.
C27_Witness ==
    /\ \E w \in Workers :
          /\ resp.calls[w].pc = "raised" /\ resp.calls[w].conn # 0
          /\ resp.calls[w].fn = "main.run_query_timed"
    /\ \E w \in Workers : resp.calls[w].pc = "raised" /\ resp.calls[w].conn = 0
    /\ resp.open = {}
    /\ resp.opened >= 2

====
